---- MODULE Spec2Model ----
(***************************************************************************)
(* SynchDB: one connector's shared status slot (sdb_state->mysqlinfo),     *)
(* the background workers that supervise it (synchdb_engine_main), the     *)
(* controller SQL functions (pause / resume / set_offset) and the admin    *)
(* stop (synchdb_stop_engine_bgw).                                         *)
(*                                                                         *)
(* Granularity: every LWLock-protected section of synchdb.c is one atomic  *)
(* step; every read that the code performs WITHOUT the lock is a step of   *)
(* its own, so that the check-then-act races of the code are behaviours of *)
(* the model.  An elog(ERROR) in a background worker ends the process      *)
(* through proc_exit, which runs the on_shmem_exit hook                    *)
(* synchdb_detach_shmem registered in setup_environment.                   *)
(***************************************************************************)
EXTENDS Integers, Sequences, FiniteSets, TLC

(* ---------------------------- bounds ----------------------------------- *)
NumWorkers == 2
NumControllers == 2
MaxOffset == 1
MaxBatch == 2
NumTables == 4
MaxVersion == 2
NumAttrs == 4
MaxLen == 3
MaxValue == 130
MaxScale == 5

Workers == 1..NumWorkers
Controllers == 1..NumControllers
Tables == 1..NumTables

(* ------------------------- program constants --------------------------- *)
InvalidPid == -1

STATE_UNDEF == "undef"
STATE_STOPPED == "stopped"
STATE_INITIALIZING == "initializing"
STATE_PAUSED == "paused"
STATE_SYNCING == "syncing"
STATE_PARSING == "parsing"
STATE_CONVERTING == "converting"
STATE_EXECUTING == "executing"
STATE_OFFSET_UPDATE == "updating offset"

STAGE_UNDEF == "undef"
STAGE_INITIAL_SNAPSHOT == "initial snapshot"
STAGE_CHANGE_DATA_CAPTURE == "change data capture"

ConnectorState ==
  {STATE_UNDEF, STATE_STOPPED, STATE_INITIALIZING, STATE_PAUSED, STATE_SYNCING,
   STATE_PARSING, STATE_CONVERTING, STATE_EXECUTING, STATE_OFFSET_UPDATE}

\* error texts kept in the errmsg field (abstracted to the place that set them)
NoError == "no error"
ErrStartup == "Unable to Launch JVM / Failed to start dbz engine"
ErrEvent == "no valid OID found / malformed id field / table: apply error"

\* offsets are 0 ("no offset", the zeroed buffer) or a producer position
Offsets == 0..MaxOffset

\* an empty request slot: reqstate STATE_UNDEF, reqdata zeroed
EmptyRequest == [reqstate |-> STATE_UNDEF, reqdata |-> 0]

VARIABLES
  pid,        \* sdb_state->mysqlinfo.pid
  state,      \* sdb_state->mysqlinfo.state
  errmsg,     \* sdb_state->mysqlinfo.errmsg
  dbzoffset,  \* sdb_state->mysqlinfo.dbzoffset (the reported offset)
  req,        \* sdb_state->mysqlinfo.req
  offsetfile, \* the producer's persisted offset (pg_synchdb/mysql_offsets.dat)
  pc,         \* position of every worker process
  ShutdownRequestPending, \* per worker process flag set by SIGTERM
  reqcopy,    \* processRequestInterrupt: reqcopy->reqdata of the handled request
  ret,        \* processRequestInterrupt: ret of the producer call
  size,       \* dbz_engine_get_change: size of the fetched list of events
  i,          \* dbz_engine_get_change: index of the event the loop is at
  dataCacheHash, \* format converter: the (schema, table) keys of the data cache
  dbzevent,   \* format converter: the change event being processed
  xact,       \* replication agent: the transaction state of the process
  rows,       \* the destination tables that hold the replicated row
  fcret,      \* the value the last fc_processDBZChangeEvent returned
  bad_events, \* the count of failed events (no statement of the source writes one)
  cpc,        \* position of every controller call
  cfn,        \* the SQL function a controller is running and its argument
  spc,        \* position of the admin stop call
  spid,       \* synchdb_stop_engine_bgw: local pid
  lwlock,     \* sdb_state->lock: the mode in which every process holds it
  ops,        \* the lock and suspension operations every process has still to run
  stage,      \* the stage of the connector in the shared status
  synchdb_conninfo, \* the connectors stored in the table synchdb_conninfo
  cacheentries, \* the DataCacheEntry records of the worker, by cache key
  pg_class,   \* the destination catalog: the tables and their versions
  dbzdml,     \* the DML event parsed last, with the catalog version it uses
  attisdropped, \* the dropped attributes of the destination table
  columnValues, \* the column value list of the DML event in tuple mode
  tts_values, \* the values of the tuple slot, by slot index
  tstage,     \* how far the DML event in tuple mode has got
  colval,     \* the column value of the DML event in SQL mode
  strinfo,    \* the text convert2PGDML has emitted for the column value
  numcolval,   \* the numeric column value: encoded input, scale and output
  updml,      \* the update event parsed last: its before and after images
  pgdml,      \* the PG_DML convert2PGDML made of the update event
  remoteslot  \* synchdb_handle_update: the values of the slot that locates the row

shm == <<pid, state, errmsg, dbzoffset, req>>
wrk == <<pc, ShutdownRequestPending, reqcopy, ret, size, i, dataCacheHash,
        dbzevent, xact, rows, fcret, bad_events>>
bat == <<size, i>>
fcv == <<dataCacheHash, dbzevent, xact, rows, fcret, bad_events>>
ctl == <<cpc, cfn>>
stp == <<spc, spid>>
lkv == <<lwlock, ops>>
nmv == <<cacheentries, pg_class, dbzdml>>
tmv == <<attisdropped, columnValues, tts_values, tstage>>
sqv == <<colval, strinfo>>
pfv == <<numcolval>>
udv == <<updml, pgdml, remoteslot>>
aux == <<lwlock, ops, stage, synchdb_conninfo, cacheentries, pg_class, dbzdml,
         attisdropped, columnValues, tts_values, tstage, colval, strinfo,
         numcolval, updml, pgdml, remoteslot>>
vars == <<pid, state, errmsg, dbzoffset, req, offsetfile, pc,
          ShutdownRequestPending, reqcopy, ret, size, i, dataCacheHash,
          dbzevent, xact, rows, fcret, bad_events, cpc, cfn, spc, spid, lwlock, ops, stage,
          synchdb_conninfo, cacheentries, pg_class, dbzdml,
          attisdropped, columnValues, tts_values, tstage, colval, strinfo,
         numcolval, updml, pgdml, remoteslot>>

\* the processes that take sdb_state->lock: the worker in main_loop, a backend
\* that posts a request and a backend that runs synchdb_get_state
LockProcs == {"worker", "backend", "monitor"}

NoCall == [fn |-> "none", data |-> 0]

\* no change event is being processed
NoEvent == [type |-> "none", id |-> 0, stage |-> "none", snapshot |-> "none"]

(* ------------------------ object names and cache keys ------------------- *)
\* the ids of the source tables in the change events: database and table
SourceIds ==
  {[db |-> "inventory", table |-> "orders"],
   [db |-> "inventory", table |-> "Orders"],
   [db |-> "inventory", table |-> "items"]}

\* the rules of the connector's rule file: source id to destination name
objectMappingHash ==
  [id \in {[db |-> "inventory", table |-> "items"]} |->
     [schema |-> "Sales", table |-> "Items"]]

\* pg_tolower over the names of the model
pg_tolower(name) ==
  CASE name = "Orders" -> "orders"
    [] name = "Items" -> "items"
    [] name = "Sales" -> "sales"
    [] OTHER -> name

\* no mapping found by transform_object_name
NoMapping == [schema |-> "NULL", table |-> "NULL"]

\* transform_object_name(objid, "table")
transform_object_name(id) ==
  IF id \in DOMAIN objectMappingHash THEN objectMappingHash[id] ELSE NoMapping

\* schema and table of an event before any change of letter case: the mapped
\* name, or by default the database as the schema
MappedName(id) ==
  IF transform_object_name(id) # NoMapping
  THEN transform_object_name(id)
  ELSE [schema |-> id.db, table |-> id.table]

\* both components in lower case
Lowered(name) ==
  [schema |-> pg_tolower(name.schema), table |-> pg_tolower(name.table)]

\* parseDBZDML: schema and table are converted to lower case, then copied
\* into the cache key
DMLCacheKey(id) == Lowered(MappedName(id))

\* convert2PGDDL, DROP: the key is the schema and the table as they are
DropCacheKey(id) == MappedName(id)

\* convert2PGDDL, ALTER: db and table are converted to lower case on the path
\* without a mapping only
AlterCacheKey(id) ==
  IF transform_object_name(id) # NoMapping
  THEN MappedName(id)
  ELSE Lowered(MappedName(id))

\* the destination table of a statement: the server folds the unquoted
\* names of the statement to lower case
DestinationTable(id) == Lowered(MappedName(id))

DestinationTables == {DestinationTable(id) : id \in SourceIds}

\* the value of a tuple slot nothing was stored in
Unset == 0

\* no column value to convert, and no text emitted for it
NoColumnValue == [value |-> <<>>, datatype |-> "none"]
NothingEmitted == <<"none">>

\* no numeric column value to convert
NoNumeric == [source |-> 0, value |-> <<>>, scale |-> 0, out |-> <<"none">>]

\* no update event parsed yet, and no PG_DML made of one
NoUpdate == [columnValuesBefore |-> <<>>, columnValuesAfter |-> <<>>]
NoPGDML ==
  [columnValuesBefore |-> <<>>, columnValuesAfter |-> <<>>, dmlquery |-> <<>>]

\* no DML event parsed yet
NoDML == [id |-> [db |-> "none", table |-> "none"], version |-> 0]

\* synchdb_init_shmem: the struct is zeroed, the pid is set to InvalidPid
synchdb_init_shmem ==
  /\ pid = InvalidPid
  /\ state = STATE_UNDEF
  /\ errmsg = NoError
  /\ dbzoffset = 0
  /\ req = EmptyRequest

Init ==
  /\ synchdb_init_shmem
  /\ offsetfile = 0
  /\ pc = [w \in Workers |-> "idle"]
  /\ ShutdownRequestPending = [w \in Workers |-> FALSE]
  /\ reqcopy = [w \in Workers |-> 0]
  /\ ret = [w \in Workers |-> 0]
  /\ size = [w \in Workers |-> 0]
  /\ i = [w \in Workers |-> 0]
  /\ dataCacheHash = {}
  /\ dbzevent = NoEvent
  /\ xact = "idle"
  /\ rows = {}
  /\ fcret = 0
  /\ bad_events = 0
  /\ cpc = [c \in Controllers |-> "idle"]
  /\ cfn = [c \in Controllers |-> NoCall]
  /\ spc = "idle"
  /\ spid = InvalidPid
  /\ lwlock = [p \in LockProcs |-> <<>>]
  /\ ops = [p \in LockProcs |-> <<>>]
  /\ stage = STAGE_UNDEF
  /\ synchdb_conninfo = {}
  /\ cacheentries = {}
  /\ pg_class = [d \in DestinationTables |-> [exists |-> FALSE, version |-> 0]]
  /\ dbzdml = NoDML
  /\ attisdropped = {}
  /\ columnValues = <<>>
  /\ tts_values = [a \in 0..(NumAttrs - 1) |-> Unset]
  /\ tstage = "none"
  /\ colval = NoColumnValue
  /\ strinfo = NothingEmitted
  /\ numcolval = NoNumeric
  /\ updml = NoUpdate
  /\ pgdml = NoPGDML
  /\ remoteslot = <<>>

(* ------------------------ shared memory accessors ---------------------- *)
Goto(w, l) == pc' = [pc EXCEPT ![w] = l]

\* elog(ERROR) in the worker: proc_exit runs the on_shmem_exit hook
Throw(w) == Goto(w, "detach_getpid")

set_shm_connector_pid(p) == pid' = p
set_shm_connector_state(s) == state' = s
set_shm_connector_errmsg(e) == errmsg' = e
reset_shm_request_state == req' = EmptyRequest

\* what a step of a worker leaves alone besides the variables it names
Local == UNCHANGED <<ShutdownRequestPending, reqcopy, ret, bat, fcv, aux, ctl, stp>>

\* the same for a step of the loop over the fetched events
LocalBatch == UNCHANGED <<ShutdownRequestPending, reqcopy, ret, fcv, aux, ctl, stp>>

(* ------------------------------ start-up ------------------------------- *)
\* synchdb_start_engine_bgw registers a dynamic background worker whose
\* main function is synchdb_engine_main
synchdb_start_engine_bgw(w) ==
  /\ pc[w] = "idle"
  /\ Goto(w, "setup_getpid")
  /\ UNCHANGED <<shm, offsetfile>> /\ Local

\* setup_environment without the test of the pid it read
setup_environment_unchecked(w) ==
  /\ pc[w] = "setup_getpid"
  /\ Goto(w, "setup_setpid")
  /\ UNCHANGED <<shm, offsetfile>> /\ Local

\* setup_environment: the unlocked read of the pid and the test on it
setup_environment_check(w) ==
  /\ pc[w] = "setup_getpid"
  /\ IF pid # InvalidPid THEN Throw(w) ELSE Goto(w, "setup_setpid")
  /\ UNCHANGED <<shm, offsetfile>> /\ Local

\* setup_environment: register this process as the worker of the connector
setup_environment_register(w) ==
  /\ pc[w] = "setup_setpid"
  /\ set_shm_connector_pid(w)
  /\ Goto(w, "init_state")
  /\ UNCHANGED <<state, errmsg, dbzoffset, req, offsetfile>> /\ Local

\* synchdb_engine_main: set_shm_connector_state(STATE_INITIALIZING)
engine_main_init_state(w) ==
  /\ pc[w] = "init_state"
  /\ set_shm_connector_state(STATE_INITIALIZING)
  /\ Goto(w, "init_errmsg")
  /\ UNCHANGED <<pid, errmsg, dbzoffset, req, offsetfile>> /\ Local

\* synchdb_engine_main: set_shm_connector_errmsg(NULL)
engine_main_init_errmsg(w) ==
  /\ pc[w] = "init_errmsg"
  /\ set_shm_connector_errmsg(NoError)
  /\ Goto(w, "init_jvm")
  /\ UNCHANGED <<pid, state, dbzoffset, req, offsetfile>> /\ Local

\* initialize_jvm with the state set to STATE_SYNCING as soon as the JVM is
\* created
initialize_jvm_syncing(w) ==
  /\ pc[w] = "init_jvm"
  /\ \/ /\ Goto(w, "start_engine")
        /\ set_shm_connector_state(STATE_SYNCING)
        /\ UNCHANGED errmsg
     \/ /\ set_shm_connector_errmsg(ErrStartup)
        /\ Throw(w)
        /\ UNCHANGED state
  /\ UNCHANGED <<pid, dbzoffset, req, offsetfile>> /\ Local

\* initialize_jvm: the JVM is created and the runner allocated, or the error
\* text is saved and elog(ERROR) raised
initialize_jvm(w) ==
  /\ pc[w] = "init_jvm"
  /\ \/ /\ Goto(w, "start_engine")
        /\ UNCHANGED errmsg
     \/ /\ set_shm_connector_errmsg(ErrStartup)
        /\ Throw(w)
  /\ UNCHANGED <<pid, state, dbzoffset, req, offsetfile>> /\ Local

\* start_debezium_engine: dbz_engine_start succeeds and the state is set to
\* STATE_SYNCING, or it fails, the error text is saved and elog(ERROR) raised
start_debezium_engine(w) ==
  /\ pc[w] = "start_engine"
  /\ \/ /\ set_shm_connector_state(STATE_SYNCING)
        /\ Goto(w, "ml_top")
        /\ UNCHANGED errmsg
     \/ /\ set_shm_connector_errmsg(ErrStartup)
        /\ Throw(w)
        /\ UNCHANGED state
  /\ UNCHANGED <<pid, dbzoffset, req, offsetfile>> /\ Local

(* ------------------------------ shut-down ------------------------------ *)
\* the positions at which the process has its SIGTERM handler installed and
\* has not yet entered proc_exit
Running ==
  {"setup_getpid", "setup_setpid", "init_state", "init_errmsg", "init_jvm", "start_engine",
   "ml_top", "pri_pause", "pri_resume", "pri_offset_state", "pri_offset_call",
   "pri_offset_fail_reset", "pri_offset_fail_paused", "pri_offset_paused",
   "pri_reset", "ml_getstate", "gc_fetch", "ev_parsing", "ev_converting",
   "ev_executing", "ev_offset", "ev_syncing", "ev_failed"}

\* SignalHandlerForShutdownRequest, installed for SIGTERM by setup_environment
SignalHandlerForShutdownRequest(w) ==
  ShutdownRequestPending' =
    IF w \in Workers /\ pc[w] \in Running
    THEN [ShutdownRequestPending EXCEPT ![w] = TRUE]
    ELSE ShutdownRequestPending

\* the postmaster shuts the server down: SIGTERM to the worker
postmaster_sigterm(w) ==
  /\ pc[w] \in Running
  /\ ~ShutdownRequestPending[w]
  /\ SignalHandlerForShutdownRequest(w)
  /\ UNCHANGED <<shm, offsetfile, pc, reqcopy, ret, bat, fcv, aux, ctl, stp>>

\* cleanup: dbz_engine_stop, DestroyJavaVM; then proc_exit(0) runs the
\* on_shmem_exit hook
cleanup(w) ==
  /\ Goto(w, "detach_getpid")
  /\ UNCHANGED reqcopy

\* synchdb_detach_shmem without the test of the pid it read
synchdb_detach_shmem_unchecked(w) ==
  /\ pc[w] = "detach_getpid"
  /\ Goto(w, "detach_setpid")
  /\ ShutdownRequestPending' = [ShutdownRequestPending EXCEPT ![w] = FALSE]
  /\ reqcopy' = [reqcopy EXCEPT ![w] = 0]
  /\ ret' = [ret EXCEPT ![w] = 0]
  /\ size' = [size EXCEPT ![w] = 0]
  /\ i' = [i EXCEPT ![w] = 0]
  /\ UNCHANGED <<shm, offsetfile, fcv, aux, ctl, stp>>

\* synchdb_detach_shmem: the unlocked read of the pid and the test on it
synchdb_detach_shmem_check(w) ==
  /\ pc[w] = "detach_getpid"
  /\ IF pid = w THEN Goto(w, "detach_setpid") ELSE Goto(w, "exited")
  /\ ShutdownRequestPending' = [ShutdownRequestPending EXCEPT ![w] = FALSE]
  /\ reqcopy' = [reqcopy EXCEPT ![w] = 0]
  /\ ret' = [ret EXCEPT ![w] = 0]
  /\ size' = [size EXCEPT ![w] = 0]
  /\ i' = [i EXCEPT ![w] = 0]
  /\ UNCHANGED <<shm, offsetfile, fcv, aux, ctl, stp>>

\* synchdb_detach_shmem: set_shm_connector_pid(type, InvalidPid)
synchdb_detach_shmem_pid(w) ==
  /\ pc[w] = "detach_setpid"
  /\ set_shm_connector_pid(InvalidPid)
  /\ Goto(w, "detach_setstate")
  /\ UNCHANGED <<state, errmsg, dbzoffset, req, offsetfile>> /\ Local

\* synchdb_detach_shmem: set_shm_connector_state(type, STATE_STOPPED)
synchdb_detach_shmem_state(w) ==
  /\ pc[w] = "detach_setstate"
  /\ set_shm_connector_state(STATE_STOPPED)
  /\ Goto(w, "exited")
  /\ UNCHANGED <<pid, errmsg, dbzoffset, req, offsetfile>> /\ Local

(* ------------------------------ main loop ------------------------------ *)
\* processRequestInterrupt: the branch chosen for a copied request state and
\* a copied current state
RequestBranch(reqstate, currstate) ==
  IF reqstate = STATE_UNDEF THEN "pri_reset"
  ELSE IF reqstate = STATE_PAUSED /\ currstate = STATE_SYNCING THEN "pri_pause"
  ELSE IF reqstate = STATE_SYNCING /\ currstate = STATE_PAUSED THEN "pri_resume"
  ELSE IF reqstate = STATE_OFFSET_UPDATE /\ currstate = STATE_PAUSED THEN "pri_offset_state"
  ELSE "pri_reset"

\* processRequestInterrupt: copy the request and the current state under the
\* shared lock, then select the branch
processRequestInterrupt_copy(w) ==
  /\ Goto(w, RequestBranch(req.reqstate, state))
  /\ reqcopy' = [reqcopy EXCEPT ![w] =
                   IF RequestBranch(req.reqstate, state) = "pri_offset_state"
                   THEN req.reqdata ELSE 0]

\* main_loop_top without the test of ShutdownRequestPending
main_loop_top_unchecked(w) ==
  /\ pc[w] = "ml_top"
  /\ processRequestInterrupt_copy(w)
  /\ UNCHANGED <<shm, offsetfile, ShutdownRequestPending, ret, bat, fcv, aux, ctl, stp>>

\* main_loop: while (!ShutdownRequestPending) processRequestInterrupt(...);
\* when the flag is set the loop is left and cleanup runs
main_loop_top(w) ==
  /\ pc[w] = "ml_top"
  /\ IF ShutdownRequestPending[w] THEN cleanup(w) ELSE processRequestInterrupt_copy(w)
  /\ UNCHANGED <<shm, offsetfile, ShutdownRequestPending, ret, bat, fcv, aux, ctl, stp>>

\* dbz_engine_stop: 0 is returned, or -1 when the call fails
dbz_engine_stop(w) ==
  \E r \in {0, -1} : ret' = [ret EXCEPT ![w] = r]

\* dbz_engine_start called for a resume: 0 is returned, or -1 when it fails
dbz_engine_restart(w) ==
  \E r \in {0, -1} : ret' = [ret EXCEPT ![w] = r]

\* processRequestInterrupt_pause with the state written whatever is returned
processRequestInterrupt_pause_always(w) ==
  /\ pc[w] = "pri_pause"
  /\ dbz_engine_stop(w)
  /\ set_shm_connector_state(STATE_PAUSED)
  /\ Goto(w, "pri_reset")
  /\ UNCHANGED <<pid, errmsg, dbzoffset, req, offsetfile, ShutdownRequestPending,
                 reqcopy, bat, fcv, aux, ctl, stp>>

\* pause branch: ret = dbz_engine_stop(); when it succeeds the state is set to
\* STATE_PAUSED; the request is reset next in both cases
processRequestInterrupt_pause(w) ==
  /\ pc[w] = "pri_pause"
  /\ dbz_engine_stop(w)
  /\ IF ret'[w] # 0 THEN UNCHANGED state ELSE set_shm_connector_state(STATE_PAUSED)
  /\ Goto(w, "pri_reset")
  /\ UNCHANGED <<pid, errmsg, dbzoffset, req, offsetfile, ShutdownRequestPending,
                 reqcopy, bat, fcv, aux, ctl, stp>>

\* resume branch: ret = dbz_engine_start(...); when it succeeds the state is
\* set to STATE_SYNCING; the request is reset next in both cases
processRequestInterrupt_resume(w) ==
  /\ pc[w] = "pri_resume"
  /\ dbz_engine_restart(w)
  /\ IF ret'[w] < 0 THEN UNCHANGED state ELSE set_shm_connector_state(STATE_SYNCING)
  /\ Goto(w, "pri_reset")
  /\ UNCHANGED <<pid, errmsg, dbzoffset, req, offsetfile, ShutdownRequestPending,
                 reqcopy, bat, fcv, aux, ctl, stp>>

\* offset branch: set_shm_connector_state(type, STATE_OFFSET_UPDATE)
processRequestInterrupt_offset_state(w) ==
  /\ pc[w] = "pri_offset_state"
  /\ set_shm_connector_state(STATE_OFFSET_UPDATE)
  /\ Goto(w, "pri_offset_call")
  /\ UNCHANGED <<pid, errmsg, dbzoffset, req, offsetfile>> /\ Local

\* dbz_engine_set_offset: the producer writes the offset to its file and 0 is
\* returned, or the call fails, nothing is written and -1 is returned
dbz_engine_set_offset(w) ==
  \/ /\ offsetfile' = reqcopy[w]
     /\ ret' = [ret EXCEPT ![w] = 0]
  \/ /\ UNCHANGED offsetfile
     /\ ret' = [ret EXCEPT ![w] = -1]

\* offset branch: ret = dbz_engine_set_offset(...) and the test on ret
processRequestInterrupt_offset_call(w) ==
  /\ pc[w] = "pri_offset_call"
  /\ dbz_engine_set_offset(w)
  /\ IF ret'[w] < 0 THEN Goto(w, "pri_offset_fail_reset") ELSE Goto(w, "pri_offset_paused")
  /\ UNCHANGED <<shm, ShutdownRequestPending, reqcopy, bat, fcv, aux, ctl, stp>>

\* offset branch, failure: reset_shm_request_state(type)
processRequestInterrupt_offset_fail_reset(w) ==
  /\ pc[w] = "pri_offset_fail_reset"
  /\ reset_shm_request_state
  /\ Goto(w, "pri_offset_fail_paused")
  /\ UNCHANGED <<pid, state, errmsg, dbzoffset, offsetfile>> /\ Local

\* processRequestInterrupt_offset_fail_paused without its state write
processRequestInterrupt_offset_fail_left(w) ==
  /\ pc[w] = "pri_offset_fail_paused"
  /\ Goto(w, "ml_getstate")
  /\ reqcopy' = [reqcopy EXCEPT ![w] = 0]
  /\ ret' = [ret EXCEPT ![w] = 0]
  /\ UNCHANGED <<shm, offsetfile, ShutdownRequestPending, bat, fcv, aux, ctl, stp>>

\* offset branch, failure: set_shm_connector_state(type, STATE_PAUSED); return
processRequestInterrupt_offset_fail_paused(w) ==
  /\ pc[w] = "pri_offset_fail_paused"
  /\ set_shm_connector_state(STATE_PAUSED)
  /\ Goto(w, "ml_getstate")
  /\ reqcopy' = [reqcopy EXCEPT ![w] = 0]
  /\ ret' = [ret EXCEPT ![w] = 0]
  /\ UNCHANGED <<pid, errmsg, dbzoffset, req, offsetfile, ShutdownRequestPending, bat, fcv, aux, ctl, stp>>

\* offset branch, success: set_shm_connector_state(type, STATE_PAUSED)
processRequestInterrupt_offset_paused(w) ==
  /\ pc[w] = "pri_offset_paused"
  /\ set_shm_connector_state(STATE_PAUSED)
  /\ Goto(w, "pri_reset")
  /\ UNCHANGED <<pid, errmsg, dbzoffset, req, offsetfile>> /\ Local

\* processRequestInterrupt_reset without its reset_shm_request_state
processRequestInterrupt_reset_kept(w) ==
  /\ pc[w] = "pri_reset"
  /\ Goto(w, "ml_getstate")
  /\ reqcopy' = [reqcopy EXCEPT ![w] = 0]
  /\ ret' = [ret EXCEPT ![w] = 0]
  /\ UNCHANGED <<shm, offsetfile, ShutdownRequestPending, bat, fcv, aux, ctl, stp>>

\* processRequestInterrupt: reset_shm_request_state(type) that ends the
\* handling (the final one, and the ones of the failed pause and resume)
processRequestInterrupt_reset(w) ==
  /\ pc[w] = "pri_reset"
  /\ reset_shm_request_state
  /\ Goto(w, "ml_getstate")
  /\ reqcopy' = [reqcopy EXCEPT ![w] = 0]
  /\ ret' = [ret EXCEPT ![w] = 0]
  /\ UNCHANGED <<pid, state, errmsg, dbzoffset, offsetfile, ShutdownRequestPending, bat, fcv, aux, ctl, stp>>

\* main_loop: currstate = get_shm_connector_state_enum(); switch (currstate);
\* in every state but STATE_SYNCING the iteration ends in WaitLatch
main_loop_getstate(w) ==
  /\ pc[w] = "ml_getstate"
  /\ IF state = STATE_SYNCING THEN Goto(w, "gc_fetch") ELSE Goto(w, "ml_top")
  /\ UNCHANGED <<shm, offsetfile>> /\ Local

(* --------------------------- event processing -------------------------- *)
\* dbz_engine_get_change: the loop "for (i = 0; i < size; i++)" has
\* processed event i without moving to the next one
NextEvent_same(w) ==
  /\ Goto(w, "ev_parsing")
  /\ UNCHANGED bat

\* dbz_engine_get_change: for (i = 0; i < size; i++): after event i the
\* event i + 1 of the list, or the end of the list, return 0 and WaitLatch
NextEvent(w) ==
  IF i[w] + 1 < size[w]
  THEN /\ i' = [i EXCEPT ![w] = i[w] + 1]
       /\ Goto(w, "ev_parsing")
       /\ UNCHANGED size
  ELSE /\ i' = [i EXCEPT ![w] = 0]
       /\ size' = [size EXCEPT ![w] = 0]
       /\ Goto(w, "ml_top")

\* getChangeEvents: the position the producer keeps in its offset file
\* advances with the events it delivers
ProducerFlush ==
  \/ UNCHANGED offsetfile
  \/ /\ offsetfile < MaxOffset
     /\ offsetfile' = offsetfile + 1

\* dbz_engine_get_change: getChangeEvents fails or returns an empty list, or
\* it returns events and the loop over them starts
dbz_engine_get_change(w) ==
  /\ pc[w] = "gc_fetch"
  /\ \/ /\ Goto(w, "ml_top")
        /\ UNCHANGED bat
     \/ \E n \in 1..MaxBatch :
          /\ size' = [size EXCEPT ![w] = n]
          /\ i' = [i EXCEPT ![w] = 0]
          /\ Goto(w, "ev_parsing")
  /\ ProducerFlush
  /\ UNCHANGED shm /\ LocalBatch

\* fc_processDBZChangeEvent (1): set_shm_connector_state(type, STATE_PARSING),
\* then parseDBZDDL / parseDBZDML: a record is returned, or NULL (malformed
\* event), or the error text is saved and elog(ERROR) raised
processEvent_parse(w) ==
  /\ pc[w] = "ev_parsing"
  /\ set_shm_connector_state(STATE_PARSING)
  /\ \/ /\ Goto(w, "ev_converting")
        /\ UNCHANGED errmsg
     \/ /\ Goto(w, "ev_failed")
        /\ UNCHANGED errmsg
     \/ /\ set_shm_connector_errmsg(ErrEvent)
        /\ Throw(w)
  /\ UNCHANGED <<pid, dbzoffset, req, offsetfile>> /\ Local

\* fc_processDBZChangeEvent (2): set_shm_connector_state(type,
\* STATE_CONVERTING), then convert2PGDDL / convert2PGDML: a statement is
\* returned, or NULL, or the error text is saved and elog(ERROR) raised
processEvent_convert(w) ==
  /\ pc[w] = "ev_converting"
  /\ set_shm_connector_state(STATE_CONVERTING)
  /\ \/ /\ Goto(w, "ev_executing")
        /\ UNCHANGED errmsg
     \/ /\ Goto(w, "ev_failed")
        /\ UNCHANGED errmsg
     \/ /\ set_shm_connector_errmsg(ErrEvent)
        /\ Throw(w)
  /\ UNCHANGED <<pid, dbzoffset, req, offsetfile>> /\ Local

\* fc_processDBZChangeEvent (3): set_shm_connector_state(type,
\* STATE_EXECUTING), then ra_executePGDDL / ra_executePGDML: 0 after the
\* commit, or a non-zero result (SPI failure, tuple not found), or the
\* destination raises an error: PG_CATCH saves the error text and
\* PG_RE_THROW raises it again
processEvent_execute(w) ==
  /\ pc[w] = "ev_executing"
  /\ set_shm_connector_state(STATE_EXECUTING)
  /\ \/ /\ Goto(w, "ev_offset")
        /\ UNCHANGED errmsg
     \/ /\ Goto(w, "ev_failed")
        /\ UNCHANGED errmsg
     \/ /\ set_shm_connector_errmsg(ErrEvent)
        /\ Throw(w)
  /\ UNCHANGED <<pid, dbzoffset, req, offsetfile>> /\ Local

\* set_shm_dbz_offset: dbz_engine_get_offset returns NULL and nothing is
\* written, or it returns the producer's stored offset and that is copied
\* into the shared status
set_shm_dbz_offset ==
  \/ UNCHANGED dbzoffset
  \/ dbzoffset' = offsetfile

\* fc_processDBZChangeEvent (4): update offset, after a successful execute
processEvent_offset(w) ==
  /\ pc[w] = "ev_offset"
  /\ set_shm_dbz_offset
  /\ Goto(w, "ev_syncing")
  /\ UNCHANGED <<pid, state, errmsg, req, offsetfile>> /\ Local

\* fc_processDBZChangeEvent (5): set_shm_connector_state(type, STATE_SYNCING),
\* return 0
processEvent_syncing(w) ==
  /\ pc[w] = "ev_syncing"
  /\ set_shm_connector_state(STATE_SYNCING)
  /\ NextEvent(w)
  /\ UNCHANGED <<pid, errmsg, dbzoffset, req, offsetfile>> /\ LocalBatch

\* processEvent_failed with the offset update of the successful path
processEvent_failed_offset(w) ==
  /\ pc[w] = "ev_failed"
  /\ set_shm_connector_state(STATE_SYNCING)
  /\ set_shm_dbz_offset
  /\ NextEvent(w)
  /\ UNCHANGED <<pid, errmsg, req, offsetfile>> /\ LocalBatch

\* fc_processDBZChangeEvent, a step returned a failure:
\* set_shm_connector_state(type, STATE_SYNCING), return -1;
\* dbz_engine_get_change logs a warning and goes on with the next event
processEvent_failed(w) ==
  /\ pc[w] = "ev_failed"
  /\ set_shm_connector_state(STATE_SYNCING)
  /\ NextEvent(w)
  /\ UNCHANGED <<pid, errmsg, dbzoffset, req, offsetfile>> /\ LocalBatch

(* ----------------------------- controllers ---------------------------- *)
Finish(c) ==
  /\ cpc' = [cpc EXCEPT ![c] = "idle"]
  /\ cfn' = [cfn EXCEPT ![c] = NoCall]

\* synchdb_pause_engine / synchdb_resume_engine / synchdb_set_offset: the
\* call starts, reads the pid without the lock and goes on when a worker is
\* registered (it raises "is not running" otherwise, which changes nothing)
admin_getpid(c) ==
  /\ cpc[c] = "idle"
  /\ pid # InvalidPid
  /\ \/ /\ cfn' = [cfn EXCEPT ![c] = [fn |-> "pause", data |-> 0]]
        /\ cpc' = [cpc EXCEPT ![c] = "chkreq"]
     \/ /\ cfn' = [cfn EXCEPT ![c] = [fn |-> "resume", data |-> 0]]
        /\ cpc' = [cpc EXCEPT ![c] = "chkreq"]
     \/ \E offsetstr \in 1..MaxOffset :
          /\ cfn' = [cfn EXCEPT ![c] = [fn |-> "set_offset", data |-> offsetstr]]
          /\ cpc' = [cpc EXCEPT ![c] = "getstate"]
  /\ UNCHANGED <<shm, offsetfile, wrk, aux, stp>>

\* synchdb_set_offset without the test of the state it read
synchdb_set_offset_anystate(c) ==
  /\ cpc[c] = "getstate"
  /\ cpc' = [cpc EXCEPT ![c] = "chkreq"]
  /\ UNCHANGED cfn
  /\ UNCHANGED <<shm, offsetfile, wrk, aux, stp>>

\* synchdb_set_offset: currstate = get_shm_connector_state_enum(type) and the
\* test on it
synchdb_set_offset_getstate(c) ==
  /\ cpc[c] = "getstate"
  /\ IF state # STATE_PAUSED
     THEN Finish(c)
     ELSE /\ cpc' = [cpc EXCEPT ![c] = "chkreq"]
          /\ UNCHANGED cfn
  /\ UNCHANGED <<shm, offsetfile, wrk, aux, stp>>

\* the unlocked test "req->reqstate != STATE_UNDEF" of the three functions
admin_chkreq(c) ==
  /\ cpc[c] = "chkreq"
  /\ IF req.reqstate # STATE_UNDEF
     THEN Finish(c)
     ELSE /\ cpc' = [cpc EXCEPT ![c] = "write"]
          /\ UNCHANGED cfn
  /\ UNCHANGED <<shm, offsetfile, wrk, aux, stp>>

\* synchdb_pause_engine: req->reqstate = STATE_PAUSED under the exclusive lock
synchdb_pause_engine(c) ==
  /\ cpc[c] = "write"
  /\ cfn[c].fn = "pause"
  /\ req' = [req EXCEPT !.reqstate = STATE_PAUSED]
  /\ Finish(c)
  /\ UNCHANGED <<pid, state, errmsg, dbzoffset, offsetfile, wrk, aux, stp>>

\* synchdb_resume_engine: req->reqstate = STATE_SYNCING under the exclusive lock
synchdb_resume_engine(c) ==
  /\ cpc[c] = "write"
  /\ cfn[c].fn = "resume"
  /\ req' = [req EXCEPT !.reqstate = STATE_SYNCING]
  /\ Finish(c)
  /\ UNCHANGED <<pid, state, errmsg, dbzoffset, offsetfile, wrk, aux, stp>>

\* synchdb_set_offset: req->reqstate = STATE_OFFSET_UPDATE and the copy of the
\* offset string into req->reqdata, under the exclusive lock
synchdb_set_offset(c) ==
  /\ cpc[c] = "write"
  /\ cfn[c].fn = "set_offset"
  /\ req' = [reqstate |-> STATE_OFFSET_UPDATE, reqdata |-> cfn[c].data]
  /\ Finish(c)
  /\ UNCHANGED <<pid, state, errmsg, dbzoffset, offsetfile, wrk, aux, stp>>

(* ------------------------------ admin stop ----------------------------- *)
\* synchdb_stop_engine_bgw: pid = get_shm_connector_pid(type), read without
\* the lock; "is not running" is raised when it is InvalidPid
synchdb_stop_engine_bgw_getpid ==
  /\ spc = "idle"
  /\ pid # InvalidPid
  /\ spid' = pid
  /\ spc' = "terminate"
  /\ UNCHANGED <<shm, offsetfile, wrk, aux, ctl>>

\* pg_terminate_backend(pid, 5000): SIGTERM is sent to the worker
synchdb_stop_engine_bgw_terminate ==
  /\ spc = "terminate"
  /\ SignalHandlerForShutdownRequest(spid)
  /\ spc' = "wait"
  /\ UNCHANGED <<shm, offsetfile, pc, reqcopy, ret, bat, fcv, aux, ctl, spid>>

\* pg_terminate_backend returns, because the worker has exited or because
\* the 5000 ms have passed; then set_shm_connector_pid(type, InvalidPid)
synchdb_stop_engine_bgw_setpid ==
  /\ spc = "wait"
  /\ set_shm_connector_pid(InvalidPid)
  /\ spc' = "idle"
  /\ spid' = InvalidPid
  /\ UNCHANGED <<state, errmsg, dbzoffset, req, offsetfile, wrk, aux, ctl>>

(* ---------------------------- specification ---------------------------- *)
\* one step of the worker process w: synchdb_engine_main and the exit hook
synchdb_engine_main(w) ==
  \/ synchdb_start_engine_bgw(w)
  \/ setup_environment_check(w)
  \/ setup_environment_register(w)
  \/ engine_main_init_state(w)
  \/ engine_main_init_errmsg(w)
  \/ initialize_jvm(w)
  \/ start_debezium_engine(w)
  \/ main_loop_top(w)
  \/ processRequestInterrupt_pause(w)
  \/ processRequestInterrupt_resume(w)
  \/ processRequestInterrupt_offset_state(w)
  \/ processRequestInterrupt_offset_call(w)
  \/ processRequestInterrupt_offset_fail_reset(w)
  \/ processRequestInterrupt_offset_fail_paused(w)
  \/ processRequestInterrupt_offset_paused(w)
  \/ processRequestInterrupt_reset(w)
  \/ main_loop_getstate(w)
  \/ dbz_engine_get_change(w)
  \/ processEvent_parse(w)
  \/ processEvent_convert(w)
  \/ processEvent_execute(w)
  \/ processEvent_offset(w)
  \/ processEvent_syncing(w)
  \/ processEvent_failed(w)
  \/ synchdb_detach_shmem_check(w)
  \/ synchdb_detach_shmem_pid(w)
  \/ synchdb_detach_shmem_state(w)

\* one step of a controller call in the backend c
Controller(c) ==
  \/ admin_getpid(c)
  \/ synchdb_set_offset_getstate(c)
  \/ admin_chkreq(c)
  \/ synchdb_pause_engine(c)
  \/ synchdb_resume_engine(c)
  \/ synchdb_set_offset(c)

\* one step of the admin stop call
synchdb_stop_engine_bgw ==
  \/ synchdb_stop_engine_bgw_getpid
  \/ synchdb_stop_engine_bgw_terminate
  \/ synchdb_stop_engine_bgw_setpid

\* one supervisor, the controller sessions and the postmaster
Next ==
  \/ synchdb_engine_main(1)
  \/ postmaster_sigterm(1)
  \/ \E c \in Controllers : Controller(c)

Spec == Init /\ [][Next]_vars

\* one supervisor, one controller session, the admin stop and the postmaster
NextStop ==
  \/ synchdb_engine_main(1)
  \/ postmaster_sigterm(1)
  \/ Controller(1)
  \/ synchdb_stop_engine_bgw

SpecStop == Init /\ [][NextStop]_vars

\* concurrently started worker processes and one controller session
NextWorkers ==
  \/ \E w \in Workers : synchdb_engine_main(w)
  \/ Controller(1)

SpecWorkers == Init /\ [][NextWorkers]_vars

\* the start-up of a worker process, up to the main loop, and its exit hook
synchdb_engine_startup(w) ==
  \/ synchdb_start_engine_bgw(w)
  \/ setup_environment_check(w)
  \/ setup_environment_register(w)
  \/ engine_main_init_state(w)
  \/ engine_main_init_errmsg(w)
  \/ initialize_jvm(w)
  \/ start_debezium_engine(w)
  \/ synchdb_detach_shmem_check(w)
  \/ synchdb_detach_shmem_pid(w)
  \/ synchdb_detach_shmem_state(w)

\* worker processes started one after another or concurrently
NextStart == \E w \in Workers : synchdb_engine_startup(w)

SpecStart == Init /\ [][NextStart]_vars

TypeOK ==
  /\ pid \in Workers \cup {InvalidPid}
  /\ state \in ConnectorState
  /\ dbzoffset \in Offsets
  /\ offsetfile \in Offsets
  /\ req \in [reqstate : ConnectorState, reqdata : Offsets]
  /\ size \in [Workers -> 0..MaxBatch]
  /\ i \in [Workers -> 0..MaxBatch]

(* ------------------- admin commands and the connector type -------------- *)
TYPE_UNDEF == "TYPE_UNDEF"
TYPE_MYSQL == "TYPE_MYSQL"
TYPE_ORACLE == "TYPE_ORACLE"
TYPE_SQLSERVER == "TYPE_SQLSERVER"

\* the connector names given to the admin commands
ConnectorNames == {"MySQL", "nonexist", "postgres"}

\* the admin commands that take a connector name
AdminFunctions ==
  {"start", "stop", "pause", "resume", "set_offset", "add_conninfo"}

\* the name as strcasecmp compares it
ToLower(connector) == IF connector = "MySQL" THEN "mysql" ELSE connector

\* fc_get_connector_type with every name taken as mysql
fc_get_connector_type_any(connector) == TYPE_MYSQL

\* fc_get_connector_type: strcasecmp with "mysql", "oracle", "sqlserver"
fc_get_connector_type(connector) ==
  IF ToLower(connector) = "mysql" THEN TYPE_MYSQL
  ELSE IF ToLower(connector) = "oracle" THEN TYPE_ORACLE
  ELSE IF ToLower(connector) = "sqlserver" THEN TYPE_SQLSERVER
  ELSE TYPE_UNDEF

\* an admin command is called with a connector name (and an offset string)
admin_call(c, fn, connector) ==
  /\ cpc[c] = "idle"
  /\ cpc' = [cpc EXCEPT ![c] = "gettype"]
  /\ \E offsetstr \in 1..MaxOffset :
       cfn' = [cfn EXCEPT ![c] =
                 [fn |-> fn,
                  data |-> IF fn = "set_offset" THEN offsetstr ELSE 0,
                  connector |-> connector]]
  /\ UNCHANGED <<shm, offsetfile, wrk, aux, stp>>

\* type = fc_get_connector_type(connector); TYPE_UNDEF raises "unsupported
\* connector type", before the shared memory is attached
admin_gettype(c) ==
  /\ cpc[c] = "gettype"
  /\ IF fc_get_connector_type(cfn[c].connector) = TYPE_UNDEF
     THEN Finish(c)
     ELSE /\ cpc' = [cpc EXCEPT ![c] = "typed"]
          /\ UNCHANGED cfn
  /\ UNCHANGED <<shm, offsetfile, wrk, aux, stp>>

\* synchdb_pause_engine / synchdb_resume_engine / synchdb_set_offset with a
\* supported type: the unlocked read of the pid; "is not running" is raised
\* when it is InvalidPid
admin_typed_getpid(c) ==
  /\ cpc[c] = "typed"
  /\ cfn[c].fn \in {"pause", "resume", "set_offset"}
  /\ IF pid = InvalidPid
     THEN Finish(c)
     ELSE /\ cpc' = [cpc EXCEPT ![c] =
                       IF cfn[c].fn = "set_offset" THEN "getstate" ELSE "chkreq"]
          /\ cfn' = [cfn EXCEPT ![c] = [fn |-> cfn[c].fn, data |-> cfn[c].data]]
  /\ UNCHANGED <<shm, offsetfile, wrk, aux, stp>>

\* synchdb_stop_engine_bgw with a supported type: the unlocked read of the
\* pid; "is not running" is raised when it is InvalidPid (or the one stop call
\* of the model is still under way)
admin_typed_stop(c) ==
  /\ cpc[c] = "typed"
  /\ cfn[c].fn = "stop"
  /\ IF pid = InvalidPid \/ spc # "idle"
     THEN UNCHANGED stp
     ELSE spid' = pid /\ spc' = "terminate"
  /\ Finish(c)
  /\ UNCHANGED <<shm, offsetfile, wrk, aux>>

\* synchdb_start_engine_bgw with a supported type: prepare_bgw and
\* RegisterDynamicBackgroundWorker start the worker process
admin_typed_start(c) ==
  /\ cpc[c] = "typed"
  /\ cfn[c].fn = "start"
  /\ IF pc[1] = "idle" THEN Goto(1, "setup_getpid") ELSE UNCHANGED pc
  /\ Finish(c)
  /\ UNCHANGED <<shm, offsetfile, ShutdownRequestPending, reqcopy, ret, bat,
                 fcv, aux, stp>>

\* synchdb_add_conninfo with a supported type: the connector is stored
admin_typed_add_conninfo(c) ==
  /\ cpc[c] = "typed"
  /\ cfn[c].fn = "add_conninfo"
  /\ synchdb_conninfo' = synchdb_conninfo \cup {cfn[c].connector}
  /\ Finish(c)
  /\ UNCHANGED <<shm, offsetfile, wrk, lkv, stage, nmv, tmv, sqv, pfv, udv,
                 stp>>

\* one step of an admin command in the backend c
Admin(c) ==
  \/ \E fn \in AdminFunctions, connector \in ConnectorNames :
       admin_call(c, fn, connector)
  \/ admin_gettype(c)
  \/ admin_typed_getpid(c)
  \/ admin_typed_stop(c)
  \/ admin_typed_start(c)
  \/ admin_typed_add_conninfo(c)
  \/ synchdb_set_offset_getstate(c)
  \/ admin_chkreq(c)
  \/ synchdb_pause_engine(c)
  \/ synchdb_resume_engine(c)
  \/ synchdb_set_offset(c)

\* the worker process without its first step, which admin_typed_start takes
synchdb_engine_started(w) ==
  pc[w] # "idle" /\ synchdb_engine_main(w)

\* one admin session and the worker it starts, stops and sends requests to
NextAdmin ==
  \/ Admin(1)
  \/ synchdb_engine_started(1)
  \/ synchdb_stop_engine_bgw_terminate
  \/ synchdb_stop_engine_bgw_setpid

SpecAdmin == Init /\ [][NextAdmin]_vars

(* -------- format converter and replication agent of one worker --------- *)
DDLTypes == {"CREATE", "DROP", "ALTER"}
DMLTypes == {"INSERT", "UPDATE", "DELETE"}

\* the type read from a schema change event whose tableChanges array is empty
NoTableChange == "NULL"

\* what a step of the event processing leaves alone besides the state and
\* the error text of the status and the variables of the converter
Outside ==
  UNCHANGED <<pid, dbzoffset, req, offsetfile, pc, ShutdownRequestPending,
              reqcopy, ret, bat, bad_events, lkv, synchdb_conninfo, nmv,
              tmv, sqv, pfv, udv, ctl, stp>>

\* the same for a step that leaves the stage alone too
OutsideEvent == Outside /\ UNCHANGED stage

\* fc_initFormatConverter in a newly started worker process: the data cache
\* is created empty; synchdb_engine_main has cleared the error text and the
\* state is SYNCING when the first event is fetched
fc_initFormatConverter ==
  /\ state \in {STATE_UNDEF, STATE_STOPPED}
  /\ dbzevent = NoEvent
  /\ state' = STATE_SYNCING
  /\ errmsg' = NoError
  /\ dataCacheHash' = {}
  /\ UNCHANGED <<dbzevent, xact, rows, fcret>>
  /\ OutsideEvent

\* the values of payload.source.snapshot
SnapshotValues == {"true", "last", "false", "NULL"}

\* fc_processDBZChangeEvent with only "true" taken as a snapshot event
SnapshotStage_true(snapshot) ==
  IF snapshot = "true"
  THEN STAGE_INITIAL_SNAPSHOT
  ELSE STAGE_CHANGE_DATA_CAPTURE

\* fc_processDBZChangeEvent: the stage chosen from payload.source.snapshot
\* (!strcmp(.., "true") || !strcmp(.., "last"))
SnapshotStage(snapshot) ==
  IF snapshot = "true" \/ snapshot = "last"
  THEN STAGE_INITIAL_SNAPSHOT
  ELSE STAGE_CHANGE_DATA_CAPTURE

\* set_shm_connector_stage: the stage of the connector is written
set_shm_connector_stage(s) == stage' = s

\* fc_processDBZChangeEvent takes up a change event: a DDL event of type
\* CREATE, DROP or ALTER for the table id, or a DML event for it, and sets
\* the state to PARSING
fc_processDBZChangeEvent(type, id, snapshot) ==
  /\ state = STATE_SYNCING
  /\ dbzevent = NoEvent
  /\ dbzevent' = [type |-> type, id |-> id, stage |-> "parse",
                  snapshot |-> snapshot]
  /\ set_shm_connector_stage(SnapshotStage(snapshot))
  /\ state' = STATE_PARSING
  /\ UNCHANGED <<errmsg, dataCacheHash, xact, rows, fcret>>
  /\ Outside

\* a step of fc_processDBZChangeEvent succeeded: the state of the next step
fc_next(next, s) ==
  /\ dbzevent' = [dbzevent EXCEPT !.stage = next]
  /\ state' = s
  /\ UNCHANGED <<errmsg, fcret>>

\* fc_processDBZChangeEvent returns r: the state goes back to SYNCING
fc_return(r) ==
  /\ dbzevent' = NoEvent
  /\ state' = STATE_SYNCING
  /\ fcret' = r
  /\ UNCHANGED errmsg

\* elog(ERROR) while an event is processed: the error text has been saved,
\* the process ends (its transaction is aborted, its cache is gone) and the
\* exit hook sets the state to STOPPED
fc_error ==
  /\ dbzevent # NoEvent
  /\ errmsg' = ErrEvent
  /\ state' = STATE_STOPPED
  /\ dataCacheHash' = {}
  /\ dbzevent' = NoEvent
  /\ xact' = "idle"
  /\ UNCHANGED <<rows, fcret>>
  /\ OutsideEvent

\* parseDBZDDL: payload.tableChanges.0.id and payload.tableChanges.0.type both
\* read as "NULL" (no table change): NULL is returned; else the event is
\* parsed, or it is malformed and NULL is returned; fc_processDBZChangeEvent
\* returns -1 for NULL
parseDBZDDL ==
  /\ dbzevent.type \in DDLTypes \cup {NoTableChange}
  /\ dbzevent.stage = "parse"
  /\ \/ /\ dbzevent.type # NoTableChange
        /\ fc_next("convert", STATE_CONVERTING)
     \/ fc_return(-1)
  /\ UNCHANGED <<dataCacheHash, xact, rows>>
  /\ OutsideEvent

\* parseDBZDML: hash_search(dataCacheHash, &cachekey, HASH_ENTER, &found); a
\* new entry is filled from the catalog
parseDBZDML ==
  /\ dbzevent.type \in DMLTypes
  /\ dbzevent.stage = "parse"
  /\ dataCacheHash' = dataCacheHash \cup {dbzevent.id}
  /\ fc_next("convert", STATE_CONVERTING)
  /\ UNCHANGED <<xact, rows>>
  /\ OutsideEvent

\* convert2PGDDL: the CREATE branch builds the statement; the DROP and the
\* ALTER branch call hash_search(dataCacheHash, &cachekey, HASH_REMOVE, &found)
\* for the table of the event
convert2PGDDL ==
  /\ dbzevent.type \in DDLTypes
  /\ dbzevent.stage = "convert"
  /\ dataCacheHash' =
       IF dbzevent.type = "CREATE"
       THEN dataCacheHash
       ELSE dataCacheHash \ {dbzevent.id}
  /\ fc_next("execute", STATE_EXECUTING)
  /\ UNCHANGED <<xact, rows>>
  /\ OutsideEvent

\* convert2PGDML: the record is converted, or NULL is returned
convert2PGDML ==
  /\ dbzevent.type \in DMLTypes
  /\ dbzevent.stage = "convert"
  /\ \/ fc_next("execute", STATE_EXECUTING)
     \/ fc_return(-1)
  /\ UNCHANGED <<dataCacheHash, xact, rows>>
  /\ OutsideEvent

\* the rows of the destination once the statement of the event has run
Applied ==
  CASE dbzevent.type = "INSERT" -> rows \cup {dbzevent.id}
    [] dbzevent.type \in {"DELETE", "DROP"} -> rows \ {dbzevent.id}
    [] OTHER -> rows

\* spi_execute: StartTransactionCommand, SPI_connect, SPI_exec and then
\*  - ret = 0, SPI_finish, PopActiveSnapshot, CommitTransactionCommand, or
\*  - SPI_connect failed, or SPI_exec gave a code other than SPI_OK_INSERT,
\*    SPI_OK_UTILITY, SPI_OK_DELETE, SPI_OK_UPDATE: return ret, with neither
\*    CommitTransactionCommand nor AbortCurrentTransaction
\* (an error raised inside PG_TRY is fc_error)
spi_execute ==
  /\ dbzevent.stage = "execute"
  /\ xact = "idle"
  /\ \/ /\ xact' = "idle"
        /\ rows' = Applied
        /\ fc_return(0)
     \/ /\ xact' = "open"
        /\ rows' = rows
        /\ fc_return(-1)
  /\ UNCHANGED dataCacheHash
  /\ OutsideEvent

\* synchdb_handle_insert (synchdb_dml_use_spi off): the tuple is inserted and
\* the transaction committed
synchdb_handle_insert ==
  /\ dbzevent.type = "INSERT"
  /\ dbzevent.stage = "execute"
  /\ xact = "idle"
  /\ rows' = Applied
  /\ fc_return(0)
  /\ UNCHANGED <<dataCacheHash, xact>>
  /\ OutsideEvent

\* synchdb_handle_update (synchdb_dml_use_spi off): the tuple is looked up by
\* the before image; found: ExecSimpleRelationUpdate; else elog(WARNING,
\* "tuple to update not found") and ret = -1; CommitTransactionCommand in
\* both cases
synchdb_handle_update ==
  /\ dbzevent.type = "UPDATE"
  /\ dbzevent.stage = "execute"
  /\ xact = "idle"
  /\ rows' = rows
  /\ fc_return(IF dbzevent.id \in rows THEN 0 ELSE -1)
  /\ UNCHANGED <<dataCacheHash, xact>>
  /\ OutsideEvent

\* synchdb_handle_delete (synchdb_dml_use_spi off): found: the tuple is
\* deleted; else elog(WARNING, "tuple to delete not found") and ret = -1;
\* CommitTransactionCommand in both cases
synchdb_handle_delete ==
  /\ dbzevent.type = "DELETE"
  /\ dbzevent.stage = "execute"
  /\ xact = "idle"
  /\ rows' = Applied
  /\ fc_return(IF dbzevent.id \in rows THEN 0 ELSE -1)
  /\ UNCHANGED <<dataCacheHash, xact>>
  /\ OutsideEvent

\* the format converter and the replication agent of one worker process
NextCache ==
  \/ fc_initFormatConverter
  \/ \E type \in DDLTypes \cup DMLTypes \cup {NoTableChange}, id \in Tables,
          snapshot \in SnapshotValues :
       fc_processDBZChangeEvent(type, id, snapshot)
  \/ parseDBZDDL
  \/ parseDBZDML
  \/ convert2PGDDL
  \/ convert2PGDML
  \/ spi_execute
  \/ synchdb_handle_insert
  \/ synchdb_handle_update
  \/ synchdb_handle_delete
  \/ fc_error

SpecCache == Init /\ [][NextCache]_vars

(* --------------- the data cache under the names of the events ----------- *)
\* what the steps of this section leave alone
OutsideNames ==
  UNCHANGED <<shm, offsetfile, wrk, lkv, stage, synchdb_conninfo, tmv, sqv, pfv, udv,
              ctl, stp>>

\* the entries of the cache under the key k
CacheEntry(k) == {e \in cacheentries : e.key = k}

\* elog(ERROR) ends the worker process: its cache is gone
dc_error ==
  /\ cacheentries' = {}
  /\ dbzdml' = NoDML
  /\ UNCHANGED pg_class

\* parseDBZDML: hash_search(dataCacheHash, &cachekey, HASH_ENTER, &found);
\* found: the table oid and the column map of the entry are used; not found:
\* get_namespace_oid and get_relname_relid look the lower-case names up
\* (elog(ERROR) when there is no such table) and the entry is filled from the
\* catalog
dc_parseDBZDML(id) ==
  LET k == DMLCacheKey(id) IN
  /\ IF CacheEntry(k) # {}
     THEN /\ dbzdml' = [id |-> id,
                        version |-> (CHOOSE e \in CacheEntry(k) : TRUE).version]
          /\ UNCHANGED <<cacheentries, pg_class>>
     ELSE IF k \in DOMAIN pg_class /\ pg_class[k].exists
     THEN /\ cacheentries' =
               cacheentries \cup {[key |-> k, version |-> pg_class[k].version]}
          /\ dbzdml' = [id |-> id, version |-> pg_class[k].version]
          /\ UNCHANGED pg_class
     ELSE dc_error
  /\ OutsideNames

\* convert2PGDDL and ra_executePGDDL, CREATE: CREATE TABLE IF NOT EXISTS; a
\* new table has a new oid; the cache is not touched
dc_convert2PGDDL_create(id) ==
  LET d == DestinationTable(id) IN
  /\ IF pg_class[d].exists
     THEN UNCHANGED pg_class
     ELSE /\ pg_class[d].version < MaxVersion
          /\ pg_class' = [pg_class EXCEPT
                            ![d] = [exists |-> TRUE, version |-> @.version + 1]]
  /\ UNCHANGED <<cacheentries, dbzdml>>
  /\ OutsideNames

\* convert2PGDDL and ra_executePGDDL, DROP: hash_search(dataCacheHash,
\* &cachekey, HASH_REMOVE, &found) with the schema and table of the statement,
\* then DROP TABLE IF EXISTS
dc_convert2PGDDL_drop(id) ==
  LET d == DestinationTable(id) IN
  /\ cacheentries' = cacheentries \ CacheEntry(DropCacheKey(id))
  /\ pg_class' = [pg_class EXCEPT ![d].exists = FALSE]
  /\ UNCHANGED dbzdml
  /\ OutsideNames

\* convert2PGDDL and ra_executePGDDL, ALTER: HASH_REMOVE with the schema and
\* table of the statement, get_namespace_oid and get_relname_relid with the
\* same names (elog(ERROR) when there is no such table), then ALTER TABLE
\* changes the columns
dc_convert2PGDDL_alter(id) ==
  LET k == AlterCacheKey(id) IN
  /\ IF k \in DOMAIN pg_class /\ pg_class[k].exists
     THEN /\ pg_class[k].version < MaxVersion
          /\ cacheentries' = cacheentries \ CacheEntry(k)
          /\ pg_class' = [pg_class EXCEPT ![k].version = @ + 1]
          /\ UNCHANGED dbzdml
     ELSE dc_error
  /\ OutsideNames

\* the events of one worker, by the names of their tables
NextNames ==
  \E id \in SourceIds :
    \/ dc_parseDBZDML(id)
    \/ dc_convert2PGDDL_create(id)
    \/ dc_convert2PGDDL_drop(id)
    \/ dc_convert2PGDDL_alter(id)

SpecNames == Init /\ [][NextNames]_vars

(* ---------------------- DML events in tuple mode ------------------------ *)
\* what the steps of this section leave alone
OutsideTuple ==
  UNCHANGED <<shm, offsetfile, wrk, lkv, stage, synchdb_conninfo, nmv, sqv, pfv, udv,
              ctl, stp>>

\* the attribute positions of the destination table
Attnums == 1..NumAttrs

\* the sequences over the set S without repetition: the columns of an event
\* in the order of its payload
RECURSIVE Orders(_)
Orders(S) ==
  IF S = {} THEN {<<>>}
  ELSE UNION {{<<a>> \o t : t \in Orders(S \ {a})} : a \in S}

\* list_sort_cmp: by position
list_sort_cmp(a, b) ==
  IF a.position < b.position THEN -1
  ELSE IF a.position > b.position THEN 1
  ELSE 0

\* the list with the cell c put in before the first cell that is greater
RECURSIVE InsertCell(_, _)
InsertCell(c, list) ==
  IF list = <<>> THEN <<c>>
  ELSE IF list_sort_cmp(c, Head(list)) < 0 THEN <<c>> \o list
  ELSE <<Head(list)>> \o InsertCell(c, Tail(list))

\* list_sort(list, list_sort_cmp)
RECURSIVE list_sort(_)
list_sort(list) ==
  IF list = <<>> THEN <<>>
  ELSE InsertCell(Head(list), list_sort(Tail(list)))

\* the destination drops a column: its attribute stays in the tuple
\* descriptor, marked as dropped
alter_table_drop_column(a) ==
  /\ tstage \in {"none", "stored"}
  /\ a \notin attisdropped
  /\ Cardinality(attisdropped) < NumAttrs - 1
  /\ attisdropped' = attisdropped \cup {a}
  /\ columnValues' = <<>>
  /\ tts_values' = [s \in 0..(NumAttrs - 1) |-> Unset]
  /\ tstage' = "none"
  /\ OutsideTuple

\* parseDBZDML: each column of the payload gets the position of the attribute
\* of its name (entry->position = attnum), in the order of the payload; then
\* list_sort by position. The value of a column is written as the position
\* of its own attribute.
tm_parseDBZDML(payload) ==
  /\ tstage \in {"none", "stored"}
  /\ \A n \in 1..Len(payload) : payload[n] \notin attisdropped
  /\ columnValues' =
       list_sort([n \in 1..Len(payload) |->
                    [position |-> payload[n], value |-> payload[n]]])
  /\ tts_values' = [s \in 0..(NumAttrs - 1) |-> Unset]
  /\ tstage' = "dbz"
  /\ UNCHANGED attisdropped
  /\ OutsideTuple

\* convert2PGDML, heap branch: one PG_DML_COLUMN_VALUE per column value, with
\* the position copied, in the order of the list
tm_convert2PGDML ==
  /\ tstage = "dbz"
  /\ columnValues' =
       [n \in 1..Len(columnValues) |->
          [position |-> columnValues[n].position,
           value |-> columnValues[n].value]]
  /\ tstage' = "pg"
  /\ UNCHANGED <<attisdropped, tts_values>>
  /\ OutsideTuple

\* i = 0; foreach(cell, colval) { slot->tts_values[i] = ...; i++; }
StoreByIndex(list) ==
  [s \in 0..(NumAttrs - 1) |->
     IF s + 1 <= Len(list) THEN list[s + 1].value ELSE Unset]

\* synchdb_handle_insert, synchdb_handle_update, synchdb_handle_delete: the
\* values of the list are stored in the slot in the order of the list
tm_synchdb_handle(op) ==
  /\ tstage = "pg"
  /\ tts_values' = StoreByIndex(columnValues)
  /\ tstage' = "stored"
  /\ UNCHANGED <<attisdropped, columnValues>>
  /\ OutsideTuple

\* the DML events of one worker in tuple mode: any columns of the destination
\* table that are not dropped, in any order
NextTuple ==
  \/ \E a \in Attnums : alter_table_drop_column(a)
  \/ \E S \in (SUBSET Attnums) \ {{}} :
       \E payload \in Orders(S) : tm_parseDBZDML(payload)
  \/ tm_convert2PGDML
  \/ \E op \in DMLTypes : tm_synchdb_handle(op)

SpecTuple == Init /\ [][NextTuple]_vars

(* ----------------------- DML events in SQL mode ------------------------- *)
\* what the steps of this section leave alone
OutsideSQL ==
  UNCHANGED <<shm, offsetfile, wrk, lkv, stage, synchdb_conninfo, nmv, tmv,
              pfv, udv, ctl, stp>>

\* the characters of the values, and the values: strings of up to MaxLen
\* characters
Chars == {"a", "'"}
Strings == UNION {[1..n -> Chars] : n \in 0..MaxLen}

\* the destination types of the text branch of processDataByType
TextOids ==
  {"BPCHAROID", "TEXTOID", "VARCHAROID", "CSTRINGOID", "TIMESTAMPTZOID",
   "JSONBOID", "UUIDOID"}

\* the result NULL of processDataByType
NullData == <<"NULL">>

\* escapeSingleQuote without the quotes around: every single quote doubled
RECURSIVE EscapedChars(_)
EscapedChars(in) ==
  IF in = <<>> THEN <<>>
  ELSE (IF Head(in) = "'" THEN <<"'", "'">> ELSE <<Head(in)>>)
         \o EscapedChars(Tail(in))

\* escapeSingleQuote(in, addquote)
escapeSingleQuote(in, addquote) ==
  IF addquote THEN <<"'">> \o EscapedChars(in) \o <<"'">>
  ELSE EscapedChars(in)

\* processDataByType, the text branch, without a transform expression: NULL
\* for an empty value; with addquote escapeSingleQuote(in, addquote) is called
\* and its result is not assigned, out stays NULL; without addquote out is a
\* copy of the value
processDataByType(cv, addquote) ==
  IF Len(cv.value) = 0 THEN NullData
  ELSE IF addquote THEN NullData
  ELSE cv.value

\* parseDBZDML: a column value of a text-like destination column
sq_parseDBZDML(value, datatype) ==
  /\ colval' = [value |-> value, datatype |-> datatype]
  /\ strinfo' = NothingEmitted
  /\ OutsideSQL

\* convert2PGDML with synchdb_dml_use_spi: data = processDataByType(colval,
\* true, ...); the data is appended to the statement, or "null" when it is
\* NULL
sq_convert2PGDML ==
  /\ colval # NoColumnValue
  /\ strinfo = NothingEmitted
  /\ strinfo' =
       (IF processDataByType(colval, TRUE) # NullData
        THEN processDataByType(colval, TRUE)
        ELSE <<"n", "u", "l", "l">>)
  /\ UNCHANGED colval
  /\ OutsideSQL

\* the column values of the DML events of one worker in SQL mode
NextSQL ==
  \/ \E value \in Strings, datatype \in TextOids :
       sq_parseDBZDML(value, datatype)
  \/ sq_convert2PGDML

SpecSQL == Init /\ [][NextSQL]_vars

(* ------------------------ numeric column values ------------------------- *)
\* what the steps of this section leave alone
OutsideNumeric ==
  UNCHANGED <<shm, offsetfile, wrk, lkv, stage, synchdb_conninfo, nmv, tmv,
              sqv, udv, ctl, stp>>

RECURSIVE Pow(_, _)
Pow(b, e) == IF e = 0 THEN 1 ELSE b * Pow(b, e - 1)

\* the decimal digits as characters
Digit(d) == <<"0", "1", "2", "3", "4", "5", "6", "7", "8", "9">>[d + 1]

RECURSIVE NatToString(_)
NatToString(n) ==
  IF n < 10 THEN <<Digit(n)>>
  ELSE NatToString(n \div 10) \o <<Digit(n % 10)>>

\* snprintf(buffer, sizeof(buffer), "%ld", value)
LongToString(v) ==
  IF v < 0 THEN <<"-">> \o NatToString(-v) ELSE NatToString(v)

\* the producer's encoding of the unscaled value: the shortest big-endian
\* two's-complement byte array
ToByteArray(v) ==
  LET L == CHOOSE n \in 1..3 :
             /\ -Pow(2, 8 * n - 1) <= v /\ v < Pow(2, 8 * n - 1)
             /\ \A m \in 1..(n - 1) :
                  ~(-Pow(2, 8 * m - 1) <= v /\ v < Pow(2, 8 * m - 1))
      u == IF v < 0 THEN v + Pow(2, 8 * L) ELSE v
  IN [k \in 1..L |-> (u \div Pow(256, L - k)) % 256]

\* the padding character of base64; the other characters are written as
\* their index 0..63 in the alphabet
Pad == 64

\* the producer's base64 text of a byte array
RECURSIVE Base64Encode(_)
Base64Encode(bytes) ==
  IF Len(bytes) = 0 THEN <<>>
  ELSE IF Len(bytes) = 1
  THEN <<bytes[1] \div 4, (bytes[1] % 4) * 16, Pad, Pad>>
  ELSE IF Len(bytes) = 2
  THEN <<bytes[1] \div 4, (bytes[1] % 4) * 16 + bytes[2] \div 16,
         (bytes[2] % 16) * 4, Pad>>
  ELSE <<bytes[1] \div 4, (bytes[1] % 4) * 16 + bytes[2] \div 16,
         (bytes[2] % 16) * 4 + bytes[3] \div 64, bytes[3] % 64>>
         \o Base64Encode(SubSeq(bytes, 4, Len(bytes)))

\* pg_b64_decode: four characters give three bytes, fewer before padding
RECURSIVE pg_b64_decode(_)
pg_b64_decode(src) ==
  IF Len(src) < 4 THEN <<>>
  ELSE LET b1 == src[1] * 4 + src[2] \div 16
           b2 == (src[2] % 16) * 16 + src[3] \div 4
           b3 == (src[3] % 4) * 64 + src[4]
       IN (IF src[3] = Pad THEN <<b1>>
           ELSE IF src[4] = Pad THEN <<b1, b2>>
           ELSE <<b1, b2, b3>>)
            \o pg_b64_decode(SubSeq(src, 5, Len(src)))

\* for (i = 0; i < len; i++) value = (value << 8) | bytes[i];
RECURSIVE ShiftInBytes(_)
ShiftInBytes(bytes) ==
  IF bytes = <<>> THEN 0
  ELSE ShiftInBytes(SubSeq(bytes, 1, Len(bytes) - 1)) * 256
         + bytes[Len(bytes)]

\* derive_value_from_byte: the bytes as an unsigned number, and when the top
\* bit of the first byte is set, value |= -((long) 1 << (len * 8)). (The
\* shift is defined for len < 8 only; the byte arrays of this model are
\* shorter.)
derive_value_from_byte(bytes) ==
  IF Len(bytes) > 0 /\ bytes[1] >= 128
  THEN ShiftInBytes(bytes) - Pow(2, 8 * Len(bytes))
  ELSE ShiftInBytes(bytes)

\* the digits without their trailing zeros
RECURSIVE StripZeros(_)
StripZeros(digits) ==
  IF Len(digits) > 1 /\ digits[Len(digits)] = "0"
  THEN StripZeros(SubSeq(digits, 1, Len(digits) - 1))
  ELSE digits

\* n times the character "0"
Zeros(n) == [k \in 1..n |-> "0"]

\* snprintf(out, size, "%g", (double) value / 10^scale) for a value of at most
\* six digits and fewer digits than the scale: six significant digits are
\* exact; fixed notation down to the exponent -4, scientific notation below
FormatG(value, scale) ==
  LET abs == IF value < 0 THEN -value ELSE value
      digits == NatToString(abs)
      sig == StripZeros(digits)
      X == Len(digits) - 1 - scale
      sign == IF value < 0 THEN <<"-">> ELSE <<>>
  IN IF value = 0 THEN <<"0">>
     ELSE IF X < -4
     THEN sign \o <<sig[1]>>
            \o (IF Len(sig) > 1 THEN <<".">> \o Tail(sig) ELSE <<>>)
            \o <<"e", "-">>
            \o (IF -X < 10 THEN <<"0">> ELSE <<>>) \o NatToString(-X)
     ELSE sign \o <<"0", ".">> \o Zeros(-X - 1) \o sig

\* snprintf writes at most size - 1 characters
Truncated(str, n) == SubSeq(str, 1, IF Len(str) < n THEN Len(str) ELSE n)

\* processDataByType, NUMERICOID: pg_b64_decode, derive_value_from_byte,
\* "%ld" into buffer, then by strlen(buffer) against the scale: the point is
\* put in, or "0." is put in front, or the quotient is printed with "%g"
\* into newlen + 1 bytes
processDataByType_numeric(in, scale) ==
  LET value == derive_value_from_byte(pg_b64_decode(in))
      buffer == LongToString(value)
      len == Len(buffer)
  IN IF scale > 0
     THEN IF len > scale
          THEN SubSeq(buffer, 1, len - scale) \o <<".">>
                 \o SubSeq(buffer, len - scale + 1, len)
          ELSE IF len = scale
          THEN <<"0", ".">> \o buffer
          ELSE Truncated(FormatG(value, scale), scale + 2)
     ELSE buffer

\* parseDBZDML: the numeric column value of the event, the base64 text of
\* the unscaled value and the scale of the column
nu_parseDBZDML(v, scale) ==
  /\ numcolval = NoNumeric
  /\ numcolval' = [source |-> v, value |-> Base64Encode(ToByteArray(v)),
                   scale |-> scale, out |-> <<"none">>]
  /\ OutsideNumeric

\* convert2PGDML: data = processDataByType(colval, ...)
nu_convert2PGDML ==
  /\ numcolval.value # <<>>
  /\ numcolval.out = <<"none">>
  /\ numcolval' =
       [numcolval EXCEPT
          !.out = processDataByType_numeric(numcolval.value, numcolval.scale)]
  /\ OutsideNumeric

\* the numeric column values of the DML events of one worker
NextNumeric ==
  \/ \E v \in (-MaxValue)..MaxValue, scale \in 0..MaxScale :
       nu_parseDBZDML(v, scale)
  \/ nu_convert2PGDML

SpecNumeric == Init /\ [][NextNumeric]_vars

(* ----------------------------- update events ---------------------------- *)
\* what the steps of this section leave alone
OutsideUpdate ==
  UNCHANGED <<shm, offsetfile, wrk, lkv, stage, synchdb_conninfo, nmv, tmv,
              sqv, pfv, ctl, stp>>

\* the columns of the table of the update events, all of an integer type
NumCols == 2

\* the value a null column has after parseDBZDML, and as the applier reads it
NullString == <<"N", "U", "L", "L">>

\* the values of an integer column after parseDBZDML
IntValues == {<<"1">>, <<"2">>}
ColumnValueStrings == IntValues \cup {NullString}

\* what a read of a freed chunk can give besides the bytes it held
Clobbered == <<"?">>

\* colval->name of the column at the position n
ColumnName(n) == <<"c", Digit(n)>>

\* the before or after image of an event: one DBZ_DML_COLUMN_VALUE per
\* column, sorted by position
Images ==
  {[n \in 1..NumCols |-> [name |-> ColumnName(n), position |-> n, value |-> f[n]]] :
     f \in [1..NumCols -> ColumnValueStrings]}

\* processDataByType for BOOLOID, INT2OID, INT4OID, INT8OID and the float
\* types: NULL for an empty value and for the value NULL, else a copy
processDataByType_int(in) ==
  IF Len(in) = 0 THEN NullData
  ELSE IF in = NullString THEN NullData
  ELSE in

\* parseDBZDML of an update event: payload.before and payload.after
up_parseDBZDML(before, after) ==
  /\ updml' = [columnValuesBefore |-> before, columnValuesAfter |-> after]
  /\ pgdml' = NoPGDML
  /\ remoteslot' = <<>>
  /\ OutsideUpdate

\* the text of the statement up to the SET clause, for the table t
UpdateSet == <<"U", "P", "D", "A", "T", "E", " ", "t", " ", "S", "E", "T", " ">>
Where == <<" ", "W", "H", "E", "R", "E", " ">>
And == <<" ", "A", "N", "D", " ">>
Equals == <<" ", "=", " ">>
NullWord == <<"n", "u", "l", "l">>

\* foreach(cell, dbzdml->columnValuesAfter): "%s = " with the name, then the
\* data and a comma, or the word null
RECURSIVE AppendSet(_, _)
AppendSet(str, list) ==
  IF list = <<>> THEN str
  ELSE LET data == processDataByType_int(Head(list).value) IN
       AppendSet(str \o Head(list).name \o Equals
                   \o (IF data # NullData THEN data \o <<",">> ELSE NullWord),
                 Tail(list))

\* foreach(cell, dbzdml->columnValuesBefore): "%s = " with the name, the data
\* or the word null, then " AND "
RECURSIVE AppendWhere(_, _)
AppendWhere(str, list) ==
  IF list = <<>> THEN str
  ELSE LET data == processDataByType_int(Head(list).value) IN
       AppendWhere(str \o Head(list).name \o Equals
                     \o (IF data # NullData THEN data ELSE NullWord) \o And,
                   Tail(list))

\* strinfo.data[strinfo.len - n] = '\0'; strinfo.len = strinfo.len - n
Shorten(str, n) == SubSeq(str, 1, Len(str) - n)

\* convert2PGDML, op 'u', with synchdb_dml_use_spi: the UPDATE statement
up_convert2PGDML_spi ==
  /\ updml # NoUpdate
  /\ pgdml = NoPGDML
  /\ pgdml' =
       [columnValuesBefore |-> <<>>,
        columnValuesAfter |-> <<>>,
        dmlquery |->
          Shorten(AppendWhere(
                    Shorten(AppendSet(UpdateSet, updml.columnValuesAfter), 1) \o Where,
                    updml.columnValuesBefore), 5) \o <<";">>]
  /\ UNCHANGED <<updml, remoteslot>>
  /\ OutsideUpdate

\* the values pstrdup(data) can give for the before image of a column whose
\* after image gave data: "NULL" when data is NULL; else data has been freed
\* by the pfree that followed the copy for the after image, and the read
\* gives the bytes it held or other bytes
FreedData(data) ==
  IF data = NullData THEN {NullString} ELSE {data, Clobbered}

\* convert2PGDML, op 'u', without synchdb_dml_use_spi: forboth over the after
\* and the before image; data = processDataByType(colval_after, ...) gives
\* the after value and is freed; the before value is made of the same data,
\* which is then freed again; datatype and position are those of the before
\* image. The second pfree of a chunk can also end the process.
up_convert2PGDML_heap ==
  /\ updml # NoUpdate
  /\ pgdml = NoPGDML
  /\ \/ \E b \in [1..NumCols -> ColumnValueStrings \cup {Clobbered}] :
          /\ \A n \in 1..NumCols :
               b[n] \in FreedData(processDataByType_int(updml.columnValuesAfter[n].value))
          /\ pgdml' =
               [columnValuesBefore |->
                  [n \in 1..NumCols |->
                     [position |-> updml.columnValuesBefore[n].position,
                      value |-> b[n]]],
                columnValuesAfter |->
                  [n \in 1..NumCols |->
                     LET data == processDataByType_int(updml.columnValuesAfter[n].value) IN
                     [position |-> updml.columnValuesAfter[n].position,
                      value |-> IF data # NullData THEN data ELSE NullString]],
                dmlquery |-> <<>>]
          /\ UNCHANGED updml
     \/ /\ \E n \in 1..NumCols :
            processDataByType_int(updml.columnValuesAfter[n].value) # NullData
        /\ updml' = NoUpdate
        /\ UNCHANGED pgdml
  /\ UNCHANGED remoteslot
  /\ OutsideUpdate

\* synchdb_handle_update: the values of colvalbefore are stored in the
\* remote slot in the order of the list, and the slot locates the row
up_synchdb_handle_update ==
  /\ pgdml # NoPGDML
  /\ pgdml.columnValuesBefore # <<>>
  /\ remoteslot = <<>>
  /\ remoteslot' =
       [n \in 1..Len(pgdml.columnValuesBefore) |-> pgdml.columnValuesBefore[n].value]
  /\ UNCHANGED <<updml, pgdml>>
  /\ OutsideUpdate

\* the update events of one worker, in SQL mode and in tuple mode
NextUpdate ==
  \/ \E before \in Images, after \in Images : up_parseDBZDML(before, after)
  \/ up_convert2PGDML_spi
  \/ up_convert2PGDML_heap
  \/ up_synchdb_handle_update

SpecUpdate == Init /\ [][NextUpdate]_vars

(* ------------------ the status lock and suspension points --------------- *)
\* the operations of a process that matter for the lock: LWLockAcquire in a
\* mode, LWLockRelease, an access to the shared struct, and a point at which
\* the process may be suspended (WaitLatch, a JNI call into the producer, a
\* destination transaction)
Acquire(mode) == [op |-> "LWLockAcquire", arg |-> mode]
Release == [op |-> "LWLockRelease", arg |-> "none"]
Access == [op |-> "access", arg |-> "none"]
Suspend(at) == [op |-> "suspend", arg |-> at]

\* LWLockAcquire(&sdb_state->lock, mode); ...; LWLockRelease(&sdb_state->lock)
LockSection(mode) == <<Acquire(mode), Access, Release>>

\* set_shm_connector_state: the assignment inside LW_EXCLUSIVE
lk_set_shm_connector_state == LockSection("exclusive")

\* reset_shm_request_state: the reset of the request inside LW_EXCLUSIVE
lk_reset_shm_request_state == LockSection("exclusive")

\* get_shm_connector_state_enum: the read inside LW_SHARED
lk_get_shm_connector_state_enum == LockSection("shared")

\* set_shm_dbz_offset with dbz_engine_get_offset called inside the lock
lk_set_shm_dbz_offset_locked ==
  <<Acquire("exclusive"), Suspend("dbz_engine_get_offset"), Access, Release>>

\* set_shm_dbz_offset: offset = dbz_engine_get_offset(type), then the copy
\* inside LW_EXCLUSIVE
lk_set_shm_dbz_offset ==
  <<Suspend("dbz_engine_get_offset")>> \o LockSection("exclusive")

\* the branches of processRequestInterrupt
RequestBranches == {"none", "pause", "pause_failed", "resume", "offset",
                    "offset_failed"}

\* processRequestInterrupt: the copy inside LW_SHARED, the branch, and
\* reset_shm_request_state
lk_processRequestInterrupt(branch) ==
  LockSection("shared") \o
  CASE branch = "none" -> lk_reset_shm_request_state
    [] branch = "pause" ->
         <<Suspend("dbz_engine_stop")>> \o lk_set_shm_connector_state
           \o lk_reset_shm_request_state
    [] branch = "pause_failed" ->
         <<Suspend("dbz_engine_stop")>> \o lk_reset_shm_request_state
    [] branch = "resume" ->
         <<Suspend("dbz_engine_start")>> \o lk_set_shm_connector_state
           \o lk_reset_shm_request_state
    [] branch = "offset" ->
         lk_set_shm_connector_state \o <<Suspend("dbz_engine_set_offset")>>
           \o lk_set_shm_connector_state \o lk_reset_shm_request_state
    [] branch = "offset_failed" ->
         lk_set_shm_connector_state \o <<Suspend("dbz_engine_set_offset")>>
           \o lk_reset_shm_request_state \o lk_set_shm_connector_state

\* fc_processDBZChangeEvent: the state is set to PARSING, CONVERTING and
\* EXECUTING, the statement runs in its transaction, the offset is copied and
\* the state set to SYNCING
lk_fc_processDBZChangeEvent ==
  lk_set_shm_connector_state \o lk_set_shm_connector_state
    \o lk_set_shm_connector_state \o <<Suspend("transaction")>>
    \o lk_set_shm_dbz_offset \o lk_set_shm_connector_state

\* dbz_engine_get_change: the JNI call getChangeEvents and the loop over the
\* n events of the list
RECURSIVE lk_dbz_engine_get_change(_)
lk_dbz_engine_get_change(n) ==
  IF n = 0
  THEN <<Suspend("dbz_engine_get_change")>>
  ELSE lk_dbz_engine_get_change(n - 1) \o lk_fc_processDBZChangeEvent

\* one iteration of main_loop: processRequestInterrupt, the read of the
\* state, dbz_engine_get_change when it is SYNCING, and WaitLatch
lk_main_loop_body(branch, syncing, n) ==
  lk_processRequestInterrupt(branch) \o lk_get_shm_connector_state_enum
    \o (IF syncing THEN lk_dbz_engine_get_change(n) ELSE <<>>)
    \o <<Suspend("WaitLatch")>>

\* synchdb_get_state: the five reads inside LW_SHARED; get_shm_connector_state
\* takes the lock in shared mode again
lk_synchdb_get_state_body ==
  <<Acquire("shared"), Access, Access>> \o LockSection("shared")
    \o <<Access, Access, Release>>

\* what a step on the lock leaves alone
OutsideLock ==
  UNCHANGED <<shm, offsetfile, wrk, stage, synchdb_conninfo, nmv, tmv, sqv, pfv, udv,
              ctl, stp>>

\* the worker enters an iteration of main_loop
lk_main_loop ==
  /\ ops["worker"] = <<>>
  /\ \E branch \in RequestBranches, syncing \in BOOLEAN, n \in 0..MaxBatch :
       ops' = [ops EXCEPT !["worker"] = lk_main_loop_body(branch, syncing, n)]
  /\ UNCHANGED lwlock
  /\ OutsideLock

\* synchdb_pause_engine / synchdb_resume_engine / synchdb_set_offset: the
\* request is written inside LW_EXCLUSIVE
lk_synchdb_pause_engine ==
  /\ ops["backend"] = <<>>
  /\ ops' = [ops EXCEPT !["backend"] = LockSection("exclusive")]
  /\ UNCHANGED lwlock
  /\ OutsideLock

\* a backend calls synchdb_get_state
lk_synchdb_get_state ==
  /\ ops["monitor"] = <<>>
  /\ ops' = [ops EXCEPT !["monitor"] = lk_synchdb_get_state_body]
  /\ UNCHANGED lwlock
  /\ OutsideLock

\* the process p is at the operation op
AtOp(p, op) == ops[p] # <<>> /\ Head(ops[p]).op = op

\* LWLockAcquire: shared mode is granted when no process holds the lock in
\* exclusive mode, exclusive mode when no process holds it at all
LWLockAcquire(p) ==
  /\ AtOp(p, "LWLockAcquire")
  /\ IF Head(ops[p]).arg = "shared"
     THEN \A q \in LockProcs :
            \A k \in 1..Len(lwlock[q]) : lwlock[q][k] # "exclusive"
     ELSE \A q \in LockProcs : lwlock[q] = <<>>
  /\ lwlock' = [lwlock EXCEPT ![p] = Append(@, Head(ops[p]).arg)]
  /\ ops' = [ops EXCEPT ![p] = Tail(@)]
  /\ OutsideLock

\* LWLockRelease: the most recent hold of the process is given up
LWLockRelease(p) ==
  /\ AtOp(p, "LWLockRelease")
  /\ lwlock[p] # <<>>
  /\ lwlock' = [lwlock EXCEPT ![p] = SubSeq(@, 1, Len(@) - 1)]
  /\ ops' = [ops EXCEPT ![p] = Tail(@)]
  /\ OutsideLock

\* a read or a write of the shared struct
lk_access(p) ==
  /\ AtOp(p, "access")
  /\ ops' = [ops EXCEPT ![p] = Tail(@)]
  /\ UNCHANGED lwlock
  /\ OutsideLock

\* the process comes back from a suspension point
lk_suspend(p) ==
  /\ AtOp(p, "suspend")
  /\ ops' = [ops EXCEPT ![p] = Tail(@)]
  /\ UNCHANGED lwlock
  /\ OutsideLock

\* the worker in main_loop and two backends, on the status lock
NextLock ==
  \/ lk_main_loop
  \/ lk_synchdb_pause_engine
  \/ lk_synchdb_get_state
  \/ \E p \in LockProcs : LWLockAcquire(p)
  \/ \E p \in LockProcs : LWLockRelease(p)
  \/ \E p \in LockProcs : lk_access(p)
  \/ \E p \in LockProcs : lk_suspend(p)

SpecLock == Init /\ [][NextLock]_vars

(* ------------------------------ properties ----------------------------- *)
\* the positions of a worker that has registered its pid and runs as the
\* supervisor: initialisation, producer start, main loop
Supervising == Running \ {"setup_getpid", "setup_setpid"}

\* the positions inside processRequestInterrupt, after the copy
Handler ==
  {"pri_pause", "pri_resume", "pri_offset_state", "pri_offset_call",
   "pri_offset_fail_reset", "pri_offset_fail_paused", "pri_offset_paused",
   "pri_reset"}

\* the positions of the offset branch after the state was set to OffsetUpdate
OffsetBranch ==
  {"pri_offset_call", "pri_offset_fail_reset", "pri_offset_fail_paused",
   "pri_offset_paused"}

\* the positions inside dbz_engine_get_change: fetching a batch or working
\* on one of its events
Consuming ==
  {"gc_fetch", "ev_parsing", "ev_converting", "ev_executing", "ev_offset",
   "ev_syncing", "ev_failed"}

ActiveState ==
  {STATE_INITIALIZING, STATE_SYNCING, STATE_PAUSED, STATE_PARSING,
   STATE_CONVERTING, STATE_EXECUTING, STATE_OFFSET_UPDATE}

\* C1: under every interleaving of concurrent start requests at most one
\* worker process is past start-up and runs as the supervisor at any time.
C1_OneSupervisor ==
  Cardinality({w \in Workers : pc[w] \in Supervising}) <= 1

\* C2: a controller call writes the request slot only if the slot is empty
\* at the moment of the write, so a pending request is never overwritten.
C2_WriteOnlyIfEmpty ==
  [][\A c \in Controllers :
       (cpc[c] = "write" /\ cpc'[c] # "write") => req.reqstate = STATE_UNDEF]_vars

\* C3: the request slot is cleared by every handling: the handler is left
\* only by a step that resets the slot, or, on the failed offset update, by
\* the state write that follows the reset; the slot is empty after each
\* reset.
C3_ClearedAfterHandling ==
  [][\A w \in Workers :
       /\ (pc[w] \in Handler /\ pc'[w] \notin Handler)
            => (req' = EmptyRequest \/ pc[w] = "pri_offset_fail_paused")
       /\ (pc[w] # "pri_offset_fail_paused" /\ pc'[w] = "pri_offset_fail_paused")
            => req' = EmptyRequest]_vars

\* a request has been handled (the state is Paused) and the handling has
\* ended with the slot empty
C3_Witness ==
  \E w \in Workers :
    pc[w] = "ml_getstate" /\ state = STATE_PAUSED /\ req = EmptyRequest

\* C4: a step of the request handler changes the connector state only along
\* Syncing -> Paused, Paused -> Syncing, Paused -> OffsetUpdate and
\* OffsetUpdate -> Paused.
C4_AllowedTransitions ==
  [][\A w \in Workers :
       (pc[w] \in Handler /\ pc'[w] # pc[w] /\ state' # state)
         => <<state, state'>> \in
              {<<STATE_SYNCING, STATE_PAUSED>>, <<STATE_PAUSED, STATE_SYNCING>>,
               <<STATE_PAUSED, STATE_OFFSET_UPDATE>>,
               <<STATE_OFFSET_UPDATE, STATE_PAUSED>>}]_vars

\* C5: when the worker that registered its pid in the slot has terminated,
\* the slot has pid Invalid and state Stopped.
C5_TerminatedLeavesStopped ==
  (pc[1] = "exited" /\ spc = "idle")
    => (pid = InvalidPid /\ state = STATE_STOPPED)

\* C6: at all times the pid of the slot is a worker's pid if and only if the
\* state is one of the active states.
C6_PidIffActive ==
  (pid # InvalidPid) <=> (state \in ActiveState)

\* the parse, convert or apply step of an event of worker w fails
EventFails(w) ==
  /\ pc[w] \in {"ev_parsing", "ev_converting", "ev_executing"}
  /\ pc'[w] \notin {pc[w], "ev_converting", "ev_executing", "ev_offset"}

\* C7: when the parse, convert or apply step of an event fails, the error
\* text is saved and the worker goes on with the batch; it does not
\* terminate.
C7_FailureSavedAndSkipped ==
  [][\A w \in Workers :
       EventFails(w) => (errmsg' = ErrEvent /\ pc'[w] = "ev_failed")]_vars

C9_PausedConsumesNothing ==
  state = STATE_PAUSED => \A w \in Workers : pc[w] \notin Consuming

\* worker w leaves the offset branch
ReturnFromOffsetUpdate(w) ==
  pc[w] \in OffsetBranch /\ pc'[w] \notin OffsetBranch

\* C10 as stated: the return to Paused happens only after the requested
\* offset has been persisted by the producer.
C10_PausedOnlyAfterPersisted ==
  [][\A w \in Workers : ReturnFromOffsetUpdate(w) => ret[w] = 0]_vars

\* C10: every entry into OffsetUpdate leads into the offset branch, which is
\* left only by the write of Paused; when dbz_engine_set_offset succeeded the
\* producer's file holds the requested offset at that write, when it failed
\* the state returns to Paused without it.
C10_ReturnsToPaused ==
  [][\A w \in Workers :
       /\ (pc[w] = "pri_offset_state" /\ pc'[w] # pc[w])
            => (state' = STATE_OFFSET_UPDATE /\ pc'[w] \in OffsetBranch)
       /\ ReturnFromOffsetUpdate(w)
            => /\ state' = STATE_PAUSED
               /\ ret[w] = 0 => offsetfile' = reqcopy[w]]_vars

\* dbz_engine_set_offset has failed, nothing was persisted, and the handler
\* is about to write Paused
C10_Witness ==
  \E w \in Workers :
    /\ pc[w] = "pri_offset_fail_paused"
    /\ ret[w] = -1
    /\ state = STATE_OFFSET_UPDATE
    /\ offsetfile # reqcopy[w]

\* C11: when a set_offset request has been handled with success (state
\* OffsetUpdate, then Paused again), the offset the connector reports is the
\* requested one.
C11_ReportedOffsetIsRequested ==
  [][\A w \in Workers :
       (pc[w] = "pri_offset_paused" /\ pc'[w] # pc[w])
         => dbzoffset' = reqcopy[w]]_vars

\* the positions of a worker inside fc_processDBZChangeEvent: an event has
\* been taken up and its processing has not yet returned
InFlight ==
  {"ev_converting", "ev_executing", "ev_offset", "ev_syncing", "ev_failed"}

\* C12: a pause request takes effect (the producer is stopped, the state set
\* to Paused) only while no worker has an event in flight.
C12_PauseBetweenEvents ==
  [][\A w \in Workers :
       (pc[w] = "pri_pause" /\ pc'[w] # pc[w])
         => \A v \in Workers : pc[v] \notin InFlight]_vars

C14_DeliveryOrder ==
  [][\A w \in Workers :
       /\ (pc[w] = "gc_fetch" /\ pc'[w] = "ev_parsing")
            => (i'[w] = 0 /\ size'[w] >= 1)
       /\ (pc[w] \in {"ev_parsing", "ev_converting", "ev_executing", "ev_offset"})
            => (i[w] < size[w] /\ i'[w] = i[w]
                /\ pc'[w] \notin {"gc_fetch", "ml_top"})
       /\ (pc[w] \in {"ev_syncing", "ev_failed"} /\ pc'[w] = "ev_parsing")
            => (i'[w] = i[w] + 1 /\ i'[w] < size[w])
       /\ (pc[w] \in {"ev_syncing", "ev_failed"} /\ pc'[w] = "ml_top")
            => i[w] + 1 = size[w]]_vars

\* the second event of a list has been applied
C14_Witness ==
  \E w \in Workers : pc[w] = "ev_offset" /\ i[w] = 1 /\ size[w] = 2

\* C15: when a DDL event (CREATE, DROP or ALTER) for a table has been
\* processed, the data cache holds no entry for that table.
C15_NoEntryAfterDDL ==
  [][(dbzevent.type \in DDLTypes /\ dbzevent.stage = "execute"
      /\ dbzevent' = NoEvent /\ fcret' = 0)
       => dbzevent.id \notin dataCacheHash']_vars

\* the apply call of the event being processed returns to its caller
ApplyReturns ==
  dbzevent.stage = "execute" /\ dbzevent' = NoEvent /\ state' = STATE_SYNCING

\* C16: when an apply call returns, its transaction is finished: no
\* transaction is open, and a failed call has changed no row.
C16_TransactionFinished ==
  [][ApplyReturns => (xact' = "idle" /\ (fcret' # 0 => rows' = rows))]_vars


\* the update handler found no tuple for the before image of the event and
\* the apply has returned its failure value
UpdateNotFound ==
  /\ dbzevent.type = "UPDATE"
  /\ dbzevent.id \notin rows
  /\ ApplyReturns
  /\ fcret' = -1
  /\ xact' = "idle"

\* C17: an update whose before image matches no destination row is not
\* fatal: no row is changed, the event is counted in bad_events and the state
\* returns to SYNCING.
C17_NotFoundCounted ==
  [][UpdateNotFound
       => (rows' = rows /\ state' = STATE_SYNCING
           /\ bad_events' = bad_events + 1)]_vars


\* the positions of a worker that has entered proc_exit
Exiting == {"detach_getpid", "detach_setpid", "detach_setstate", "exited"}

\* C18: a worker that ends on an unrecoverable failure (the error text was
\* saved and elog(ERROR) raised) keeps the error text, and has left the
\* state STOPPED when it is gone.
C18_FailureLeavesStopped ==
  [][\A w \in Workers :
       (pc'[w] \in Exiting /\ errmsg' # NoError)
         => (/\ pc[w] \in Exiting => errmsg' = errmsg
             /\ pc'[w] = "exited" => state' = STATE_STOPPED)]_vars


\* C19: a non-empty error text in the state SYNCING or PAUSED means that the
\* most recently processed event failed and a worker is still running (so it
\* is empty when an applied event sets the state back to SYNCING); a
\* non-empty error text in the state STOPPED means that no worker is running.
C19_ErrorTextMeaning ==
  [][/\ (\E w \in Workers : pc[w] = "ev_syncing" /\ pc'[w] # pc[w])
          => errmsg' = NoError
     /\ (errmsg' # NoError /\ state' \in {STATE_SYNCING, STATE_PAUSED})
          => \E w \in Workers : pc'[w] \in Supervising
     /\ (errmsg' # NoError /\ state' = STATE_STOPPED)
          => \A w \in Workers : pc'[w] \notin Supervising \ {"init_state"}]_vars


\* the positions of a worker whose step writes the shared status inside
\* LWLockAcquire(&sdb_state->lock, LW_EXCLUSIVE) (the set_shm_... functions
\* and reset_shm_request_state)
ExclusiveSection ==
  {"setup_setpid", "init_state", "init_errmsg", "init_jvm", "start_engine",
   "pri_pause", "pri_resume", "pri_offset_state", "pri_offset_fail_reset",
   "pri_offset_fail_paused", "pri_offset_paused", "pri_reset", "ev_parsing",
   "ev_converting", "ev_executing", "ev_offset", "ev_syncing", "ev_failed",
   "detach_setpid", "detach_setstate"}

\* the positions of a worker whose step reads the pid through
\* get_shm_connector_pid, which takes no lock
UnlockedRead == {"setup_getpid", "detach_getpid"}

\* the positions of a controller call whose step reads the pid through
\* get_shm_connector_pid or tests req->reqstate, both without the lock
UnlockedCall == {"idle", "chkreq"}

\* a step that writes the shared status inside an exclusive lock section
ExclusiveStep ==
  \/ \E w \in Workers : pc[w] \in ExclusiveSection /\ pc'[w] # pc[w]
  \/ \E c \in Controllers : cpc[c] = "write" /\ cpc'[c] # cpc[c]
  \/ spc = "wait" /\ spc' # spc

\* a step that reads the shared status without holding the lock
UnlockedStep ==
  \/ \E w \in Workers : pc[w] \in UnlockedRead /\ pc'[w] # pc[w]
  \/ \E c \in Controllers : cpc[c] \in UnlockedCall /\ cpc'[c] # cpc[c]
  \/ spc = "idle" /\ spc' # spc

\* C20: every write of the shared status is made in an exclusive lock
\* section, and no step reads it without holding the lock.
C20_LockDiscipline ==
  [][(shm' # shm => ExclusiveStep) /\ ~UnlockedStep]_vars


\* C21: no process holds the status lock while it is at a suspension point
\* (WaitLatch, a call into the producer, a destination transaction).
C21_NoLockAcrossSuspension ==
  \A p \in LockProcs : AtOp(p, "suspend") => lwlock[p] = <<>>

\* the worker is inside the transaction of an event while a backend holds
\* the lock
C21_Witness ==
  /\ AtOp("worker", "suspend")
  /\ Head(ops["worker"]).arg = "transaction"
  /\ lwlock["backend"] # <<>>


\* C22: a worker whose start-up check finds another process's pid in the slot
\* raises the error, and a worker that has raised an error never reaches
\* INITIALIZING, the start of the producer or the main loop.
C22_StartRefused ==
  [][\A w \in Workers :
       /\ (pc[w] = "setup_getpid" /\ pid # InvalidPid /\ pc'[w] # pc[w])
            => (pc'[w] = "detach_getpid" /\ shm' = shm)
       /\ pc[w] \in Exiting => pc'[w] \in Exiting]_vars

\* a worker was refused while another one is registered and running
C22_Witness ==
  \E w, v \in Workers :
    /\ w # v
    /\ pc[w] = "detach_getpid"
    /\ errmsg = NoError
    /\ pid = v
    /\ pc[v] \in Supervising


\* C23: a synchdb_set_offset call that reads a state other than PAUSED ends
\* with the error and leaves the request slot as it was.
C23_SetOffsetNeedsPaused ==
  [][\A c \in Controllers :
       (cpc[c] = "getstate" /\ state # STATE_PAUSED /\ cpc'[c] # cpc[c])
         => (cpc'[c] = "idle" /\ cfn'[c] = NoCall /\ req' = req)]_vars

\* a synchdb_set_offset call is about to read the state of a connector that
\* is syncing
C23_Witness ==
  \E c \in Controllers :
    cpc[c] = "getstate" /\ cfn[c].fn = "set_offset" /\ state = STATE_SYNCING


\* fc_processDBZChangeEvent returns from a schema change event without table
\* changes
EmptyChangeDone ==
  /\ dbzevent.type = NoTableChange
  /\ dbzevent' = NoEvent
  /\ state' = STATE_SYNCING

\* C24: a schema change event whose tableChanges array is empty is "no
\* change": nothing is applied and the event is not returned as a failure.
C24_EmptyChangeNotFailed ==
  [][EmptyChangeDone
       => (fcret' = 0 /\ rows' = rows /\ xact' = xact
           /\ errmsg' = errmsg)]_vars


\* C25: when the processing of an event has ended, the stage is the initial
\* snapshot if payload.source.snapshot of the event is true or last, and
\* change data capture otherwise.
C25_StageFollowsSnapshot ==
  [][(dbzevent # NoEvent /\ dbzevent' = NoEvent)
       => stage' = (IF dbzevent.snapshot \in {"true", "last"}
                    THEN STAGE_INITIAL_SNAPSHOT
                    ELSE STAGE_CHANGE_DATA_CAPTURE)]_vars

\* the last event of the snapshot is followed by an event that is not a
\* snapshot event, and the stage is change data capture while it is applied
C25_Witness ==
  /\ dbzevent.stage = "execute"
  /\ dbzevent.snapshot = "false"
  /\ stage = STAGE_CHANGE_DATA_CAPTURE
  /\ rows # {}


BetweenEvents == {"ml_top", "gc_fetch", "ev_parsing"}

\* the states of the steps of one event
EventStates == {STATE_PARSING, STATE_CONVERTING, STATE_EXECUTING}

\* C27: one event moves the state from Syncing to Parsing, Converting and
\* Executing in that order without skipping a step; every return from the
\* processing of an event leaves the state Syncing; Parsing, Converting and
\* Executing are never the state of a worker that is between two events.
C27_StateOrder ==
  [][\A w \in Workers :
       /\ (pc[w] = "ev_parsing" /\ pc'[w] # pc[w])
            => (state = STATE_SYNCING /\ state' = STATE_PARSING)
       /\ (pc[w] = "ev_converting" /\ pc'[w] # pc[w])
            => (state = STATE_PARSING /\ state' = STATE_CONVERTING)
       /\ (pc[w] = "ev_executing" /\ pc'[w] # pc[w])
            => (state = STATE_CONVERTING /\ state' = STATE_EXECUTING)
       /\ (pc[w] \in InFlight /\ pc'[w] \in BetweenEvents)
            => state' = STATE_SYNCING
       /\ pc'[w] \in BetweenEvents => state' \notin EventStates]_vars


\* C28: every DML event is translated with the table oid and column map of
\* the destination catalog as the most recent DDL on its destination table
\* left them: the version a parsed DML event uses is the current version of
\* an existing destination table, whatever the letter case or the mapping of
\* the names in the events.
C28_CacheFollowsDDL ==
  [][dbzdml' # dbzdml /\ dbzdml' # NoDML
       => LET d == DestinationTable(dbzdml'.id) IN
            pg_class'[d].exists /\ dbzdml'.version = pg_class'[d].version]_vars


\* the slot with every value in the slot of its own column:
\* tts_values[position - 1]
StoreByPosition(list) ==
  [s \in 0..(NumAttrs - 1) |->
     IF \E n \in 1..Len(list) : list[n].position = s + 1
     THEN (CHOOSE c \in {list[n] : n \in 1..Len(list)} :
             c.position = s + 1).value
     ELSE Unset]

\* C29: in tuple mode every decoded value of an event is stored in the tuple
\* slot of its own destination column, slot index = attribute position - 1,
\* also when the event carries a subset of the columns or the table has
\* dropped columns.
C29_SlotOfOwnColumn ==
  tstage = "stored" => tts_values = StoreByPosition(columnValues)


\* C30: in SQL mode a non-null value of a text-like destination column is
\* emitted as the original text in single quotes with every embedded single
\* quote doubled.
C30_QuotedText ==
  (strinfo # NothingEmitted /\ Len(colval.value) > 0)
    => strinfo = <<"'">> \o EscapedChars(colval.value) \o <<"'">>


\* the decimal string of v with the point s digits from the right
DecimalString(v, s) ==
  LET abs == IF v < 0 THEN -v ELSE v
      digits == NatToString(abs)
      padded == IF Len(digits) < s + 1
                THEN Zeros(s + 1 - Len(digits)) \o digits ELSE digits
      sign == IF v < 0 THEN <<"-">> ELSE <<>>
  IN sign \o SubSeq(padded, 1, Len(padded) - s)
       \o (IF s > 0
           THEN <<".">> \o SubSeq(padded, Len(padded) - s + 1, Len(padded))
           ELSE <<>>)

\* C31: decoding the base64 big-endian two's-complement encoding of a signed
\* integer v with scale s gives exactly the decimal string of v with the
\* point s digits from the right.
C31_NumericRoundTrip ==
  numcolval.out # <<"none">>
    => numcolval.out = DecimalString(numcolval.source, numcolval.scale)


\* the positions of start-up at which the process holds the slot (its pid is
\* registered) and the producer has not started
SlotAcquired == {"init_state", "init_errmsg", "init_jvm", "start_engine"}

\* the positions of start-up after the state and the error message were
\* initialised
Initialised == {"init_jvm", "start_engine"}

CopiedNotCleared == Handler \ {"pri_offset_fail_paused"}

\* C33: a request posted by a controller is read by the supervisor before it
\* is cleared: no controller writes the request slot while a supervisor is
\* between its copy of the slot and its clearing of the slot, since what is
\* written then is cleared without having been copied.
C33_PostedIsReadBeforeCleared ==
  [][\A c \in Controllers : \A w \in Workers :
       (cpc[c] = "write" /\ cpc'[c] # "write" /\ req' # EmptyRequest)
         => pc[w] \notin CopiedNotCleared]_vars

\* C34: only the process whose pid is recorded in the slot writes the slot's
\* state, error message and offset: every step of a worker that changes one
\* of the three is taken while the slot's pid is the pid of that worker, so
\* a worker whose pid an admin stop has cleared writes none of them.  The
\* exit hook's write of Stopped, which follows the hook's own clearing of
\* the pid, is the one write left out.
C34_OnlyOwnerWrites ==
  [][\A w \in Workers :
       (/\ pc'[w] # pc[w]
        /\ pc[w] # "detach_setstate"
        /\ <<state, errmsg, dbzoffset>>' # <<state, errmsg, dbzoffset>>)
         => pid = w]_vars

\* C35: a request posted for an earlier worker instance is never acted on by
\* a later one: at the step by which a worker registers its pid in the slot,
\* every other worker process having exited or not being started, the
\* request slot is empty, so that every request its main loop finds was
\* posted for this instance.
C35_NoRequestInherited ==
  [][\A w \in Workers :
       (/\ pc[w] = "setup_setpid" /\ pc'[w] = "init_state"
        /\ \A v \in Workers \ {w} : pc[v] \in {"idle", "exited"})
         => req = EmptyRequest]_vars

\* C36: an accepted offset request is performed and never discarded as an
\* invalid transition: whenever the supervisor's copy of the request slot
\* finds an offset update requested, the connector state is Paused and the
\* handler takes the offset branch.
C36_OffsetRequestPerformed ==
  [][\A w \in Workers :
       (pc[w] = "ml_top" /\ pc'[w] \in Handler /\ req.reqstate = STATE_OFFSET_UPDATE)
         => pc'[w] = "pri_offset_state"]_vars

\* C37: when the producer call of a pause or of a resume fails, the state is
\* left as it was, Syncing after a failed pause and Paused after a failed
\* resume, and the handler goes on to the reset that clears the request
\* slot without writing the state.
C37_FailedCallLeavesState ==
  [][\A w \in Workers :
       /\ (pc[w] = "pri_pause" /\ pc'[w] # pc[w] /\ ret'[w] # 0)
            => (state = STATE_SYNCING /\ state' = STATE_SYNCING /\ pc'[w] = "pri_reset")
       /\ (pc[w] = "pri_resume" /\ pc'[w] # pc[w] /\ ret'[w] < 0)
            => (state = STATE_PAUSED /\ state' = STATE_PAUSED /\ pc'[w] = "pri_reset")
       /\ (pc[w] = "pri_reset" /\ pc'[w] # pc[w])
            => (req' = EmptyRequest /\ state' = state)]_vars

\* a pause whose dbz_engine_stop failed, the reset still ahead, and an idle
\* main loop in state Syncing after such a failure
C37_Witness ==
  \E w \in Workers :
    /\ pc[w] = "pri_reset"
    /\ ret[w] = -1
    /\ state = STATE_SYNCING
    /\ req.reqstate = STATE_PAUSED

\* C38: a worker whose start-up fails because another process holds the
\* slot leaves the slot's pid, state, error message and request unchanged:
\* the failing test of the pid changes none of them, and the exit hook of a
\* worker that does not find its own pid in the slot ends without a write.
C38_FailedStartLeavesSlot ==
  [][\A w \in Workers :
       /\ (pc[w] = "setup_getpid" /\ pc'[w] = "detach_getpid")
            => (pid \notin {w, InvalidPid}
                /\ <<pid, state, errmsg, req>>' = <<pid, state, errmsg, req>>)
       /\ (pc[w] = "detach_getpid" /\ pc'[w] # pc[w] /\ pid # w)
            => (pc'[w] = "exited"
                /\ <<pid, state, errmsg, req>>' = <<pid, state, errmsg, req>>)]_vars

\* a worker at its exit hook after a failed start, the slot being held by
\* another process that is still starting up
C38_Witness ==
  \E w \in Workers : \E v \in Workers \ {w} :
    /\ pc[w] = "detach_getpid"
    /\ pid = v
    /\ pc[v] \in {"init_state", "init_errmsg"}

\* the value convert2PGDML makes of a column value: the data processDataByType
\* gives for it, or the text NULL
Decoded(cv) ==
  IF processDataByType_int(cv.value) = NullData THEN NullString
  ELSE processDataByType_int(cv.value)

\* C39: in tuple mode the before-image values that an update hands to the
\* applier are the decoded values of the event's before image, column by
\* column.
C39_BeforeOfBeforeImage ==
  remoteslot # <<>>
    => \A n \in 1..NumCols : remoteslot[n] = Decoded(updml.columnValuesBefore[n])

\* the SET clause: one entry "name = value" per column of the after image,
\* with a comma between consecutive entries
RECURSIVE SetClause(_)
SetClause(list) ==
  IF list = <<>> THEN <<>>
  ELSE Head(list).name \o Equals
         \o (IF processDataByType_int(Head(list).value) # NullData
             THEN processDataByType_int(Head(list).value) ELSE NullWord)
         \o (IF Tail(list) = <<>> THEN <<>> ELSE <<",">> \o SetClause(Tail(list)))

\* C40: in SQL mode the SET clause of the UPDATE statement has one entry per
\* after-image column, a comma between consecutive entries and nothing
\* removed from the last one, whichever values are null.
C40_SetClause ==
  pgdml.dmlquery # <<>>
    => LET head == UpdateSet \o SetClause(updml.columnValuesAfter) \o Where IN
       /\ Len(pgdml.dmlquery) >= Len(head)
       /\ SubSeq(pgdml.dmlquery, 1, Len(head)) = head

====
